---- MODULE Spec2Model ----
(***************************************************************************)
(* A model of libast (libast.c / libast.h): the handle life cycle          *)
(* (ast_init, ast_build, ast_eval, ast_destroy), the tokenizer and tree    *)
(* builder of ast_parse_token, the variable-index set and the evaluators.  *)
(*                                                                         *)
(* A string is a sequence of one-character strings; a position is a        *)
(* 1-based index into it and position Len+1 holds the terminating NUL.     *)
(* Nodes live in a heap indexed by address; address 0 is the null pointer. *)
(***************************************************************************)
EXTENDS Integers, Sequences, FiniteSets, TLC

VARIABLES
  input,    \* the expression string the caller has at hand in this run
  hst,      \* per handle: "unused", "live" (after ast_init) or "destroyed"
  err,      \* per handle: the ast_error_t  [errno, msg, str, eptr]
  ast,      \* per handle: the ast_t        [dtype, nvar, vidx, cap, ast]
  heap,     \* address -> ast_node_t [type, value, parent, left, right]
  allocd,   \* addresses of the nodes currently allocated
  freed,    \* addresses that have been released and not handed out again
  owner,    \* address -> the handle on whose behalf it was last allocated
  dfree,    \* TRUE once free() was applied to an address not allocated
  pc,       \* per handle: "idle", or "parse" while ast_build is running
  first,    \* per handle: the local `node` of ast_build (first node created)
  cur,      \* per handle: argument `node` of the pending ast_parse_token
  src,      \* per handle: argument `src` of the pending ast_parse_token
  last,     \* the most recent API call: its handle, arguments and return
  out,      \* per handle: what the last ast_eval stored through `value`
  ncalls,   \* number of API calls made so far
  crashed   \* TRUE once the process has been killed by a trap

vars == <<input, hst, err, ast, heap, allocd, freed, owner, dfree, pc, first,
          cur, src, last, out, ncalls, crashed>>

(***************************************************************************)
(* Bounds of the model.                                                    *)
(***************************************************************************)
MaxToks  == 3      \* lexemes in a generated expression (life-cycle runs)
MaxToksB == 5      \* lexemes in a generated expression (build-only runs)
MaxToksV == 5      \* lexemes in a generated expression (variable runs)
MaxToksP == 4      \* lexemes in a generated expression (paired runs)
MaxToksT == 4      \* lexemes in a generated expression (token-order runs)
MaxToksE == 4      \* lexemes in a generated expression (evaluation runs)
MaxToksF == 4      \* lexemes per expression, function runs
MaxToksR == 4      \* lexemes per expression, integer-arithmetic runs
MaxIdx   == 6      \* largest variable index, index-set runs
MaxCalls == 3      \* API calls made on the handles in one run
MaxSize  == 2      \* longest variable array handed to ast_eval
MaxNodes == 18     \* addresses the allocator can hand out
LONG_MAX == 127    \* largest value of the (scaled-down) signed long

LONG_MIN == -LONG_MAX - 1
INT_MAX  == 2147483647

(***************************************************************************)
(* Token kinds and the attribute table.                                    *)
(***************************************************************************)
AST_TOK_UNDEF == "UNDEF"
AST_TOK_PLUS == "PLUS"
AST_TOK_MINUS == "MINUS"
AST_TOK_MUL == "MUL"
AST_TOK_DIV == "DIV"
AST_TOK_POW == "POW"
AST_TOK_NEG == "NEG"
AST_TOK_AND == "AND"
AST_TOK_OR == "OR"
AST_TOK_EQ == "EQ"
AST_TOK_NEQ == "NEQ"
AST_TOK_GT == "GT"
AST_TOK_GE == "GE"
AST_TOK_LT == "LT"
AST_TOK_LE == "LE"
AST_TOK_NOT == "NOT"
AST_TOK_PAREN_LEFT == "PAREN_LEFT"
AST_TOK_PAREN_RIGHT == "PAREN_RIGHT"
AST_TOK_SQRT == "SQRT"
AST_TOK_LN == "LN"
AST_TOK_LOG == "LOG"
AST_TOK_NUM == "NUM"
AST_TOK_VAR == "VAR"

ast_tok_t ==
  {AST_TOK_UNDEF, AST_TOK_PLUS, AST_TOK_MINUS, AST_TOK_MUL, AST_TOK_DIV,
   AST_TOK_POW, AST_TOK_NEG, AST_TOK_AND, AST_TOK_OR, AST_TOK_EQ, AST_TOK_NEQ,
   AST_TOK_GT, AST_TOK_GE, AST_TOK_LT, AST_TOK_LE, AST_TOK_NOT,
   AST_TOK_PAREN_LEFT, AST_TOK_PAREN_RIGHT, AST_TOK_SQRT, AST_TOK_LN,
   AST_TOK_LOG, AST_TOK_NUM, AST_TOK_VAR}

AST_TOKT_NULL == "NULL"
AST_TOKT_UOPT == "UOPT"
AST_TOKT_BOPT == "BOPT"
AST_TOKT_PAREN == "PAREN"
AST_TOKT_FUNC == "FUNC"
AST_TOKT_VALUE == "VALUE"

Attr(t, p, a) == [type |-> t, precedence |-> p, argc |-> a]

ast_tok_attr ==
  [tok \in ast_tok_t |->
    CASE tok = AST_TOK_UNDEF -> Attr(AST_TOKT_NULL, -1, 1)
      [] tok \in {AST_TOK_PLUS, AST_TOK_MINUS} -> Attr(AST_TOKT_BOPT, 4, 2)
      [] tok \in {AST_TOK_MUL, AST_TOK_DIV} -> Attr(AST_TOKT_BOPT, 5, 2)
      [] tok = AST_TOK_POW -> Attr(AST_TOKT_BOPT, 6, 2)
      [] tok = AST_TOK_NEG -> Attr(AST_TOKT_UOPT, 8, 1)
      [] tok = AST_TOK_AND -> Attr(AST_TOKT_BOPT, 1, 2)
      [] tok = AST_TOK_OR -> Attr(AST_TOKT_BOPT, 0, 2)
      [] tok \in {AST_TOK_EQ, AST_TOK_NEQ} -> Attr(AST_TOKT_BOPT, 2, 2)
      [] tok \in {AST_TOK_GT, AST_TOK_GE, AST_TOK_LT, AST_TOK_LE}
           -> Attr(AST_TOKT_BOPT, 3, 2)
      [] tok = AST_TOK_NOT -> Attr(AST_TOKT_UOPT, 7, 1)
      [] tok \in {AST_TOK_PAREN_LEFT, AST_TOK_PAREN_RIGHT}
           -> Attr(AST_TOKT_PAREN, -1, 2)
      [] tok \in {AST_TOK_SQRT, AST_TOK_LN, AST_TOK_LOG}
           -> Attr(AST_TOKT_FUNC, 9, 1)
      [] tok \in {AST_TOK_NUM, AST_TOK_VAR} -> Attr(AST_TOKT_VALUE, 99, 0)]

(***************************************************************************)
(* Error codes and data types.                                             *)
(***************************************************************************)
AST_ERR_MEMORY == -1
AST_ERR_INIT == -2
AST_ERR_STRING == -3
AST_ERR_TOKEN == -4
AST_ERR_EXIST == -5
AST_ERR_NOEXP == -6
AST_ERR_VAR == -7
AST_ERR_VALUE == -8
AST_ERR_SIZE == -9
AST_ERR_EVAL == -10
AST_ERR_NVAR == -11

AST_DTYPE_DOUBLE == "DOUBLE"
AST_DTYPE_LONG == "LONG"
ast_dtype_t == {AST_DTYPE_DOUBLE, AST_DTYPE_LONG}

AST_VAR_FLAG == "$"
AST_VAR_START == "{"
AST_VAR_END == "}"

(***************************************************************************)
(* Pointers, strings and characters.                                       *)
(***************************************************************************)
NULL == 0
Addr == 1..MaxNodes

NUL == "NUL"                  \* the terminating character of a string
NULLSTR == <<"NULLPTR">>      \* a null `const char *`
NOMSG == "NULL"               \* a null `msg`

H == {"A", "B"}               \* handle identities

CharAt(s, p) == IF p >= 1 /\ p <= Len(s) THEN s[p] ELSE NUL

isspace(c) == c \in {" ", "\t", "\n", "\r"}

DigitChars == <<"0", "1", "2", "3", "4", "5", "6", "7", "8", "9">>

isdigit(c) == \E i \in 1..10 : DigitChars[i] = c

DigitVal(c) == (CHOOSE i \in 1..10 : DigitChars[i] = c) - 1

RECURSIVE ast_skip_space(_, _)
ast_skip_space(s, p) ==
  IF isspace(CharAt(s, p)) THEN ast_skip_space(s, p + 1) ELSE p

(***************************************************************************)
(* Numeric values.  The union ast_value_t is a record with both members;   *)
(* a double is kept as an exact fraction n/d (d > 0, lowest terms) or as   *)
(* one of the special values nan, +inf, -inf.  A double whose exact value  *)
(* the model cannot track is the kind "inexact".                           *)
(***************************************************************************)
Dbl(k, n, d) == [k |-> k, n |-> n, d |-> d]
DNaN == Dbl("nan", 0, 1)
DInf(s) == Dbl("inf", s, 1)
DInexact == Dbl("inexact", 0, 1)

Abs(x) == IF x < 0 THEN -x ELSE x

RECURSIVE Gcd(_, _)
Gcd(a, b) == IF b = 0 THEN a ELSE Gcd(b, a % b)

DFrac(n, d) ==
  LET g == Gcd(Abs(n), Abs(d))
      sg == IF d < 0 THEN -1 ELSE 1
  IN  Dbl("fin", sg * (n \div g), sg * (d \div g))

DInt(n) == Dbl("fin", n, 1)

Value(l, d) == [l |-> l, d |-> d]
ZeroValue == Value(0, DInt(0))

(***************************************************************************)
(* strtol and strtod as ast_parse_num uses them.  The caller guarantees    *)
(* that the text starts with a digit (LONG) or with a digit, `.`, `i`,     *)
(* `I`, `n` or `N` (DOUBLE), so signs and leading blanks never occur.      *)
(* Exponents and hexadecimal forms need letters no generated expression    *)
(* contains and are not modelled.                                          *)
(***************************************************************************)
RECURSIVE DigitsEnd(_, _)
DigitsEnd(s, p) == IF isdigit(CharAt(s, p)) THEN DigitsEnd(s, p + 1) ELSE p

\* value of the digits in [p, e), clamped to `max` as strtol clamps on ERANGE
RECURSIVE DigitsVal(_, _, _, _, _)
DigitsVal(s, p, e, acc, max) ==
  IF p >= e THEN acc
  ELSE LET x == acc * 10 + DigitVal(s[p])
       IN  DigitsVal(s, p + 1, e, IF x > max THEN max ELSE x, max)

RECURSIVE Pow10(_)
Pow10(k) == IF k = 0 THEN 1 ELSE 10 * Pow10(k - 1)

RECURSIVE IsPow2(_)
IsPow2(n) == n = 1 \/ (n > 1 /\ n % 2 = 0 /\ IsPow2(n \div 2))

strtol(s, p) ==
  LET e == DigitsEnd(s, p)
  IN  [val |-> DigitsVal(s, p, e, 0, LONG_MAX), end |-> e]

Lower(c) ==
  CASE c = "I" -> "i" [] c = "N" -> "n" [] c = "F" -> "f" [] c = "A" -> "a"
    [] c = "T" -> "t" [] c = "Y" -> "y" [] OTHER -> c

RECURSIVE MatchCI(_, _, _)
MatchCI(s, p, w) ==
  w = <<>> \/ (Lower(CharAt(s, p)) = Head(w) /\ MatchCI(s, p + 1, Tail(w)))

isalnum_(c) ==
  isdigit(c) \/ c = "_" \/
  Lower(c) \in {"a", "f", "g", "i", "l", "n", "o", "q", "r", "s", "t", "y"}

RECURSIVE AlnumEnd(_, _)
AlnumEnd(s, p) == IF isalnum_(CharAt(s, p)) THEN AlnumEnd(s, p + 1) ELSE p

DigitMax == 99999999

strtod(s, p) ==
  LET ie == DigitsEnd(s, p)
      fe == IF CharAt(s, ie) = "." THEN DigitsEnd(s, ie + 1) ELSE ie
      ne == AlnumEnd(s, p + 4)
  IN  IF MatchCI(s, p, <<"i", "n", "f", "i", "n", "i", "t", "y">>)
        THEN [val |-> DInf(1), end |-> p + 8]
      ELSE IF MatchCI(s, p, <<"i", "n", "f">>)
        THEN [val |-> DInf(1), end |-> p + 3]
      ELSE IF MatchCI(s, p, <<"n", "a", "n">>)
        THEN [val |-> DNaN,
              end |-> IF CharAt(s, p + 3) = "(" /\ CharAt(s, ne) = ")"
                        THEN ne + 1 ELSE p + 3]
      ELSE IF ie = p /\ fe <= ie + 1
        THEN [val |-> DInt(0), end |-> p]          \* nothing converted
      ELSE LET ip == DigitsVal(s, p, ie, 0, DigitMax)
               k  == IF fe > ie THEN fe - ie - 1 ELSE 0
               fp == IF k > 0 THEN DigitsVal(s, ie + 1, fe, 0, DigitMax) ELSE 0
               q  == DFrac(ip * Pow10(k) + fp, Pow10(k))
           IN  [val |-> IF IsPow2(q.d) THEN q ELSE DInexact, end |-> fe]

(***************************************************************************)
(* ast_parse_num: zero on success, AST_ERR_TOKEN when nothing is parsed.   *)
(***************************************************************************)
ast_parse_num(dtype, s, p) ==
  LET r == IF dtype = AST_DTYPE_LONG THEN strtol(s, p) ELSE strtod(s, p)
  IN  [ret |-> IF r.end - p = 0 THEN AST_ERR_TOKEN ELSE 0,
       res |-> IF dtype = AST_DTYPE_LONG THEN Value(r.val, DInt(0))
                                         ELSE Value(0, r.val),
       end |-> r.end]

(***************************************************************************)
(* The switch of ast_parse_token: the token that starts at position c.     *)
(* `full` is argc >= ast_tok_attr[node->type].argc for the current node.   *)
(* The result gives the token, its value, the position c is left at, and   *)
(* ovf = TRUE when the index of ${N} overflowed (the function returns).    *)
(***************************************************************************)
Tk(tok, l, c) == [tok |-> tok, v |-> Value(l, DInt(0)), c |-> c, ovf |-> FALSE]

\* the for loop reading the digits of ${N}, with its overflow detection
\* variant: the index is multiplied before any test
RECURSIVE VarIdxLoop_NoMulCheck(_, _, _)
VarIdxLoop_NoMulCheck(s, c, idx) ==
  IF ~isdigit(CharAt(s, c)) THEN [c |-> c, idx |-> idx, ovf |-> FALSE]
  ELSE LET digit == DigitVal(s[c])
       IN  IF LONG_MAX - digit < idx * 10
             THEN [c |-> c, idx |-> idx * 10, ovf |-> TRUE]
           ELSE VarIdxLoop_NoMulCheck(s, c + 1, idx * 10 + digit)

RECURSIVE VarIdxLoop(_, _, _)
VarIdxLoop(s, c, idx) ==
  IF ~isdigit(CharAt(s, c)) THEN [c |-> c, idx |-> idx, ovf |-> FALSE]
  ELSE LET digit == DigitVal(s[c])
       IN  IF LONG_MAX \div 10 < idx THEN [c |-> c, idx |-> idx, ovf |-> TRUE]
           ELSE IF LONG_MAX - digit < idx * 10
             THEN [c |-> c, idx |-> idx * 10, ovf |-> TRUE]
           ELSE VarIdxLoop(s, c + 1, idx * 10 + digit)

\* variant: the test of `-` turned round
Tokenize_MinusSwapped(s, c, dtype, full) ==
  LET ch == CharAt(s, c)
      c1 == CharAt(s, c + 1)
      c2 == CharAt(s, c + 2)
      c3 == CharAt(s, c + 3)
      c4 == CharAt(s, c + 4)
      two(x, tok) == IF c1 = x THEN Tk(tok, 0, c + 1)
                               ELSE Tk(AST_TOK_UNDEF, 0, c + 1)
      opt(x, t2, t1) == IF c1 = x THEN Tk(t2, 0, c + 1) ELSE Tk(t1, 0, c)
  IN  CASE ch \in {".", "i", "I", "n", "N"} ->
             IF dtype # AST_DTYPE_DOUBLE THEN Tk(AST_TOK_UNDEF, 0, c)
                                         ELSE Tk(AST_TOK_NUM, 0, c)
        [] isdigit(ch) -> Tk(AST_TOK_NUM, 0, c)
        [] ch = AST_VAR_FLAG ->
             IF isdigit(c1) /\ c1 # "0" THEN Tk(AST_TOK_VAR, DigitVal(c1) - 1, c + 1)
             ELSE IF c1 = AST_VAR_START
               THEN LET r == VarIdxLoop(s, c + 2, 0)
                    IN  IF r.ovf THEN [Tk(AST_TOK_UNDEF, 0, r.c) EXCEPT !.ovf = TRUE]
                        ELSE IF r.idx > 0 /\ CharAt(s, r.c) = AST_VAR_END
                          THEN Tk(AST_TOK_VAR, r.idx - 1, r.c)
                        ELSE Tk(AST_TOK_UNDEF, 0, r.c)
             ELSE Tk(AST_TOK_UNDEF, 0, c + 1)
        [] ch = "+" -> Tk(AST_TOK_PLUS, 0, c)
        [] ch = "-" -> IF full THEN Tk(AST_TOK_NEG, 0, c)
                                ELSE Tk(AST_TOK_MINUS, 0, c)
        [] ch = "*" -> Tk(AST_TOK_MUL, 0, c)
        [] ch = "/" -> Tk(AST_TOK_DIV, 0, c)
        [] ch = "^" -> Tk(AST_TOK_POW, 0, c)
        [] ch = "&" -> two("&", AST_TOK_AND)
        [] ch = "|" -> two("|", AST_TOK_OR)
        [] ch = "=" -> two("=", AST_TOK_OR)
        [] ch = "!" -> opt("=", AST_TOK_NEQ, AST_TOK_NOT)
        [] ch = ">" -> opt("=", AST_TOK_GE, AST_TOK_GT)
        [] ch = "<" -> opt("=", AST_TOK_LE, AST_TOK_LT)
        [] ch = "(" -> Tk(AST_TOK_PAREN_LEFT, 0, c)
        [] ch = ")" -> Tk(AST_TOK_PAREN_RIGHT, 0, c)
        [] ch = "s" ->
             IF c1 = "q" /\ c2 = "r" /\ c3 = "t" /\ c4 = "("
               THEN Tk(AST_TOK_SQRT, 0, c + 4) ELSE Tk(AST_TOK_UNDEF, 0, c)
        [] ch = "l" ->
             IF c1 = "n" /\ c2 = "("
               THEN Tk(AST_TOK_LN, 0, c + 2)
             ELSE IF c1 = "o" /\ c2 = "g" /\ c3 = "("
               THEN Tk(AST_TOK_LOG, 0, c + 3)
             ELSE Tk(AST_TOK_UNDEF, 0, c)
        [] OTHER -> Tk(AST_TOK_UNDEF, 0, c)

\* variant: the written index of a variable kept as its payload
Tokenize_VarAsWritten(s, c, dtype, full) ==
  LET ch == CharAt(s, c)
      c1 == CharAt(s, c + 1)
      c2 == CharAt(s, c + 2)
      c3 == CharAt(s, c + 3)
      c4 == CharAt(s, c + 4)
      two(x, tok) == IF c1 = x THEN Tk(tok, 0, c + 1)
                               ELSE Tk(AST_TOK_UNDEF, 0, c + 1)
      opt(x, t2, t1) == IF c1 = x THEN Tk(t2, 0, c + 1) ELSE Tk(t1, 0, c)
  IN  CASE ch \in {".", "i", "I", "n", "N"} ->
             IF dtype # AST_DTYPE_DOUBLE THEN Tk(AST_TOK_UNDEF, 0, c)
                                         ELSE Tk(AST_TOK_NUM, 0, c)
        [] isdigit(ch) -> Tk(AST_TOK_NUM, 0, c)
        [] ch = AST_VAR_FLAG ->
             IF isdigit(c1) /\ c1 # "0" THEN Tk(AST_TOK_VAR, DigitVal(c1), c + 1)
             ELSE IF c1 = AST_VAR_START
               THEN LET r == VarIdxLoop(s, c + 2, 0)
                    IN  IF r.ovf THEN [Tk(AST_TOK_UNDEF, 0, r.c) EXCEPT !.ovf = TRUE]
                        ELSE IF r.idx > 0 /\ CharAt(s, r.c) = AST_VAR_END
                          THEN Tk(AST_TOK_VAR, r.idx, r.c)
                        ELSE Tk(AST_TOK_UNDEF, 0, r.c)
             ELSE Tk(AST_TOK_UNDEF, 0, c + 1)
        [] ch = "+" -> Tk(AST_TOK_PLUS, 0, c)
        [] ch = "-" -> IF full THEN Tk(AST_TOK_MINUS, 0, c) ELSE Tk(AST_TOK_NEG, 0, c)
        [] ch = "*" -> Tk(AST_TOK_MUL, 0, c)
        [] ch = "/" -> Tk(AST_TOK_DIV, 0, c)
        [] ch = "^" -> Tk(AST_TOK_POW, 0, c)
        [] ch = "&" -> two("&", AST_TOK_AND)
        [] ch = "|" -> two("|", AST_TOK_OR)
        [] ch = "=" -> two("=", AST_TOK_OR)
        [] ch = "!" -> opt("=", AST_TOK_NEQ, AST_TOK_NOT)
        [] ch = ">" -> opt("=", AST_TOK_GE, AST_TOK_GT)
        [] ch = "<" -> opt("=", AST_TOK_LE, AST_TOK_LT)
        [] ch = "(" -> Tk(AST_TOK_PAREN_LEFT, 0, c)
        [] ch = ")" -> Tk(AST_TOK_PAREN_RIGHT, 0, c)
        [] ch = "s" ->
             IF c1 = "q" /\ c2 = "r" /\ c3 = "t" /\ c4 = "("
               THEN Tk(AST_TOK_SQRT, 0, c + 4) ELSE Tk(AST_TOK_UNDEF, 0, c)
        [] ch = "l" ->
             IF c1 = "n" /\ c2 = "("
               THEN Tk(AST_TOK_LN, 0, c + 2)
             ELSE IF c1 = "o" /\ c2 = "g" /\ c3 = "("
               THEN Tk(AST_TOK_LOG, 0, c + 3)
             ELSE Tk(AST_TOK_UNDEF, 0, c)
        [] OTHER -> Tk(AST_TOK_UNDEF, 0, c)

Tokenize(s, c, dtype, full) ==
  LET ch == CharAt(s, c)
      c1 == CharAt(s, c + 1)
      c2 == CharAt(s, c + 2)
      c3 == CharAt(s, c + 3)
      c4 == CharAt(s, c + 4)
      two(x, tok) == IF c1 = x THEN Tk(tok, 0, c + 1)
                               ELSE Tk(AST_TOK_UNDEF, 0, c + 1)
      opt(x, t2, t1) == IF c1 = x THEN Tk(t2, 0, c + 1) ELSE Tk(t1, 0, c)
  IN  CASE ch \in {".", "i", "I", "n", "N"} ->
             IF dtype # AST_DTYPE_DOUBLE THEN Tk(AST_TOK_UNDEF, 0, c)
                                         ELSE Tk(AST_TOK_NUM, 0, c)
        [] isdigit(ch) -> Tk(AST_TOK_NUM, 0, c)
        [] ch = AST_VAR_FLAG ->
             IF isdigit(c1) /\ c1 # "0" THEN Tk(AST_TOK_VAR, DigitVal(c1) - 1, c + 1)
             ELSE IF c1 = AST_VAR_START
               THEN LET r == VarIdxLoop(s, c + 2, 0)
                    IN  IF r.ovf THEN [Tk(AST_TOK_UNDEF, 0, r.c) EXCEPT !.ovf = TRUE]
                        ELSE IF r.idx > 0 /\ CharAt(s, r.c) = AST_VAR_END
                          THEN Tk(AST_TOK_VAR, r.idx - 1, r.c)
                        ELSE Tk(AST_TOK_UNDEF, 0, r.c)
             ELSE Tk(AST_TOK_UNDEF, 0, c + 1)
        [] ch = "+" -> Tk(AST_TOK_PLUS, 0, c)
        [] ch = "-" -> IF full THEN Tk(AST_TOK_MINUS, 0, c) ELSE Tk(AST_TOK_NEG, 0, c)
        [] ch = "*" -> Tk(AST_TOK_MUL, 0, c)
        [] ch = "/" -> Tk(AST_TOK_DIV, 0, c)
        [] ch = "^" -> Tk(AST_TOK_POW, 0, c)
        [] ch = "&" -> two("&", AST_TOK_AND)
        [] ch = "|" -> two("|", AST_TOK_OR)
        [] ch = "=" -> two("=", AST_TOK_OR)
        [] ch = "!" -> opt("=", AST_TOK_NEQ, AST_TOK_NOT)
        [] ch = ">" -> opt("=", AST_TOK_GE, AST_TOK_GT)
        [] ch = "<" -> opt("=", AST_TOK_LE, AST_TOK_LT)
        [] ch = "(" -> Tk(AST_TOK_PAREN_LEFT, 0, c)
        [] ch = ")" -> Tk(AST_TOK_PAREN_RIGHT, 0, c)
        [] ch = "s" ->
             IF c1 = "q" /\ c2 = "r" /\ c3 = "t" /\ c4 = "("
               THEN Tk(AST_TOK_SQRT, 0, c + 4) ELSE Tk(AST_TOK_UNDEF, 0, c)
        [] ch = "l" ->
             IF c1 = "n" /\ c2 = "("
               THEN Tk(AST_TOK_LN, 0, c + 2)
             ELSE IF c1 = "o" /\ c2 = "g" /\ c3 = "("
               THEN Tk(AST_TOK_LOG, 0, c + 3)
             ELSE Tk(AST_TOK_UNDEF, 0, c)
        [] OTHER -> Tk(AST_TOK_UNDEF, 0, c)

(***************************************************************************)
(* Tree nodes and the tree manipulation functions.  Each takes the heap    *)
(* and returns the new heap; `new` is the address malloc returned (NULL    *)
(* when the allocation failed).                                            *)
(***************************************************************************)
ast_node_t(type, value) ==
  [type |-> type, value |-> value, parent |-> NULL, left |-> NULL,
   right |-> NULL]

ast_create(hp, new, type, value) ==
  [hp EXCEPT ![new] = ast_node_t(type, value)]

\* variant: ast_root looking one level up only
ast_root_Parent(hp, node) ==
  IF hp[node].parent # NULL THEN hp[node].parent ELSE node

RECURSIVE ast_root(_, _)
ast_root(hp, node) ==
  IF hp[node].parent # NULL THEN ast_root(hp, hp[node].parent) ELSE node

\* the nodes dereferenced by the walk of ast_root
RECURSIVE RootWalk(_, _, _)
RootWalk(hp, node, fuel) ==
  IF fuel = 0 \/ hp[node].parent = NULL THEN {node}
  ELSE {node} \cup RootWalk(hp, hp[node].parent, fuel - 1)

\* variant: the splice keeping the type of the parenthesis node
ast_delete_KeepType(hp, node) ==
  LET tmp == hp[node].left
  IN  [hp EXCEPT ![node].value = hp[tmp].value,
                 ![node].left = hp[tmp].left,
                 ![node].right = hp[tmp].right]

\* variant: the splice dropping the right child of the removed node
ast_delete_NoRight(hp, node) ==
  LET tmp == hp[node].left
  IN  [hp EXCEPT ![node].type = hp[tmp].type,
                 ![node].value = hp[tmp].value,
                 ![node].left = hp[tmp].left]

ast_delete(hp, node) ==
  LET tmp == hp[node].left
  IN  [hp EXCEPT ![node].type = hp[tmp].type,
                 ![node].value = hp[tmp].value,
                 ![node].left = hp[tmp].left,
                 ![node].right = hp[tmp].right]

\* variant: the loop of ast_insert stopping at an operator of the same
\* precedence
RECURSIVE Climb_Strict(_, _, _)
Climb_Strict(hp, node, tok) ==
  LET par == hp[node].parent
  IN  IF par # NULL /\ hp[par].type # AST_TOK_PAREN_LEFT
         /\ ast_tok_attr[hp[par].type].type # AST_TOKT_FUNC
         /\ ast_tok_attr[hp[par].type].precedence >
              ast_tok_attr[tok].precedence
        THEN Climb_Strict(hp, par, tok)
        ELSE node

\* variant: the loop of ast_insert climbing by precedence alone, past left
\* parentheses and functions
RECURSIVE Climb_NoScope(_, _, _)
Climb_NoScope(hp, node, tok) ==
  LET par == hp[node].parent
  IN  IF par # NULL
         /\ ast_tok_attr[hp[par].type].precedence >=
              ast_tok_attr[tok].precedence
        THEN Climb_NoScope(hp, par, tok)
        ELSE node

\* variant: the loop of ast_insert not climbing past a unary operator
RECURSIVE Climb_BelowUnary(_, _, _)
Climb_BelowUnary(hp, node, tok) ==
  LET par == hp[node].parent
  IN  IF par # NULL /\ hp[par].type # AST_TOK_PAREN_LEFT
         /\ ast_tok_attr[hp[par].type].type # AST_TOKT_FUNC
         /\ ast_tok_attr[hp[par].type].type # AST_TOKT_UOPT
         /\ ast_tok_attr[hp[par].type].precedence >=
              ast_tok_attr[tok].precedence
        THEN Climb_BelowUnary(hp, par, tok)
        ELSE node

\* the while loop of ast_insert: the ancestor the new operator goes above
RECURSIVE Climb(_, _, _)
Climb(hp, node, tok) ==
  LET par == hp[node].parent
  IN  IF par # NULL /\ hp[par].type # AST_TOK_PAREN_LEFT
         /\ ast_tok_attr[hp[par].type].type # AST_TOKT_FUNC
         /\ ast_tok_attr[hp[par].type].precedence >=
              ast_tok_attr[tok].precedence
        THEN Climb(hp, par, tok)
        ELSE node

\* variant: a leaf always becoming the left child
ast_insert_LeftOnly(hp, node, tok, value, new) ==
  IF hp[node].type = AST_TOK_UNDEF
    THEN [hp |-> [hp EXCEPT ![node].type = tok, ![node].value = value],
          ret |-> node]
  ELSE IF new = NULL THEN [hp |-> hp, ret |-> NULL]
  ELSE LET h1 == ast_create(hp, new, tok, value)
       IN  IF ast_tok_attr[tok].type = AST_TOKT_BOPT
             THEN LET n == Climb(h1, node, tok)
                      par == h1[n].parent
                  IN  IF par # NULL
                        THEN [hp |-> [h1 EXCEPT
                                 ![new].left = n,
                                 ![new].parent = par,
                                 ![par].left = IF h1[par].left = n THEN new ELSE @,
                                 ![par].right = IF h1[par].left = n THEN @ ELSE new],
                              ret |-> new]
                        ELSE [hp |-> [h1 EXCEPT ![new].left = n,
                                                ![n].parent = new],
                              ret |-> new]
           ELSE [hp |-> [h1 EXCEPT ![node].left = new, ![new].parent = node],
                 ret |-> new]

ast_insert(hp, node, tok, value, new) ==
  IF hp[node].type = AST_TOK_UNDEF
    THEN [hp |-> [hp EXCEPT ![node].type = tok, ![node].value = value],
          ret |-> node]
  ELSE IF new = NULL THEN [hp |-> hp, ret |-> NULL]
  ELSE LET h1 == ast_create(hp, new, tok, value)
       IN  IF ast_tok_attr[tok].type = AST_TOKT_BOPT
             THEN LET n == Climb(h1, node, tok)
                      par == h1[n].parent
                  IN  IF par # NULL
                        THEN [hp |-> [h1 EXCEPT
                                 ![new].left = n,
                                 ![new].parent = par,
                                 ![par].left = IF h1[par].left = n THEN new ELSE @,
                                 ![par].right = IF h1[par].left = n THEN @ ELSE new],
                              ret |-> new]
                        ELSE [hp |-> [h1 EXCEPT ![new].left = n,
                                                ![n].parent = new],
                              ret |-> new]
           ELSE IF h1[node].left = NULL
             THEN [hp |-> [h1 EXCEPT ![node].left = new, ![new].parent = node],
                   ret |-> new]
           ELSE [hp |-> [h1 EXCEPT ![node].right = new, ![new].parent = node],
                 ret |-> new]

\* post-order list of the addresses ast_free passes to free()
RECURSIVE ast_free(_, _, _)
ast_free(hp, node, fuel) ==
  IF node = NULL \/ fuel = 0 THEN <<>>
  ELSE ast_free(hp, hp[node].left, fuel - 1) \o
       ast_free(hp, hp[node].right, fuel - 1) \o <<node>>

\* the do-while loops of ast_parse_token that look for the enclosing
\* left parenthesis or function; NULL when there is none
RECURSIVE ScopeWalk(_, _)
ScopeWalk(hp, node) ==
  LET par == hp[node].parent
  IN  IF par = NULL THEN NULL
      ELSE IF hp[par].type = AST_TOK_PAREN_LEFT
              \/ ast_tok_attr[hp[par].type].type = AST_TOKT_FUNC THEN par
      ELSE ScopeWalk(hp, par)

(***************************************************************************)
(* The variable-index set.                                                 *)
(***************************************************************************)
RECURSIVE BinLoop(_, _, _, _)
BinLoop(arr, l, u, var) ==
  IF l > u THEN l
  ELSE LET i == (l + u) \div 2
       IN  IF arr[i + 1] < var THEN BinLoop(arr, i + 1, u, var)
           ELSE IF arr[i + 1] > var THEN BinLoop(arr, l, i - 1, var)
           ELSE -1

ast_bin_search(arr, num, var) == BinLoop(arr, 0, num - 1, var)

\* variant: the new index stored behind the last one, nothing shifted
InsertAt_Append(seq, pos, x) == Append(seq, x)

InsertAt(seq, pos, x) ==
  [i \in 1..(Len(seq) + 1) |->
     IF i <= pos THEN seq[i] ELSE IF i = pos + 1 THEN x ELSE seq[i - 1]]

\* variant: the index set growing only while it is empty
ast_record_var_GrowOnce(a, e, idx, ok) ==
  LET pos == IF a.cap # 0 THEN ast_bin_search(a.vidx, a.nvar, idx) ELSE 0
      grow == a.nvar = 0
  IN  IF pos < 0 THEN [a |-> a, e |-> e, realloc |-> FALSE]
      ELSE IF a.nvar = INT_MAX
        THEN [a |-> a, e |-> [e EXCEPT !.errno = AST_ERR_NVAR],
              realloc |-> FALSE]
      ELSE IF grow /\ ~ok
        THEN [a |-> a, e |-> [e EXCEPT !.errno = AST_ERR_MEMORY],
              realloc |-> TRUE]
      ELSE [a |-> [a EXCEPT !.vidx = InsertAt(a.vidx, pos, idx),
                            !.nvar = a.nvar + 1,
                            !.cap = IF grow THEN 1 ELSE a.cap],
            e |-> e, realloc |-> grow]

\* a: the ast_t record, e: the ast_error_t record, ok: realloc succeeds
ast_record_var(a, e, idx, ok) ==
  LET pos == IF a.cap # 0 THEN ast_bin_search(a.vidx, a.nvar, idx) ELSE 0
      grow == a.nvar = 0 \/ IsPow2(a.nvar)
      size == IF INT_MAX \div 2 < a.nvar THEN INT_MAX
              ELSE IF a.nvar # 0 THEN a.nvar * 2 ELSE 1
  IN  IF pos < 0 THEN [a |-> a, e |-> e, realloc |-> FALSE]
      ELSE IF a.nvar = INT_MAX
        THEN [a |-> a, e |-> [e EXCEPT !.errno = AST_ERR_NVAR],
              realloc |-> FALSE]
      ELSE IF grow /\ ~ok
        THEN [a |-> a, e |-> [e EXCEPT !.errno = AST_ERR_MEMORY],
              realloc |-> TRUE]
      ELSE [a |-> [a EXCEPT !.vidx = InsertAt(a.vidx, pos, idx),
                            !.nvar = a.nvar + 1,
                            !.cap = IF grow THEN size ELSE a.cap],
            e |-> e, realloc |-> grow]

(***************************************************************************)
(* The evaluators.  A result is [v, err, st, rd]: the value returned, the  *)
(* error flag *err after the call, st = "ok", or "ub" when the value came  *)
(* out of an operation C leaves undefined (signed overflow, an out-of-     *)
(* range conversion to long, a read outside the variable array), or        *)
(* "trap" when the process is killed (integer division by zero, a null     *)
(* node), and rd, the set of indices k for which var[k] was read.          *)
(***************************************************************************)
Ev(v, e, st, rd) == [v |-> v, err |-> e, st |-> st, rd |-> rd]

Worst(a, b) ==
  IF a = "trap" \/ b = "trap" THEN "trap"
  ELSE IF a = "ub" \/ b = "ub" THEN "ub" ELSE "ok"

InLong(x) == LONG_MIN <= x /\ x <= LONG_MAX

\* (long) of an exactly known integer-valued or truncated double
ToLong(x) == IF InLong(x) THEN [v |-> x, st |-> "ok"] ELSE [v |-> 0, st |-> "ub"]

Undef == [v |-> 0, st |-> "ub"]
Trap == [v |-> 0, st |-> "trap"]

\* variant: integer division rounding toward minus infinity
TruncDiv_Floor(a, b) ==
  LET q == Abs(a) \div Abs(b)
  IN  IF (a < 0) = (b < 0) THEN q
      ELSE IF q * Abs(b) = Abs(a) THEN -q ELSE -q - 1

TruncDiv(a, b) ==
  LET q == Abs(a) \div Abs(b)
  IN  IF (a < 0) = (b < 0) THEN q ELSE -q

RECURSIVE ISqrt(_, _)
ISqrt(x, r) == IF (r + 1) * (r + 1) > x THEN r ELSE ISqrt(x, r + 1)

ExpCeil == <<3, 8, 21, 55, 149, 404, 1097, 2981>>   \* ceil(e^k), k = 1..8

LnFloor(x) == Cardinality({k \in 1..8 : ExpCeil[k] <= x})

Log10Floor(x) == Cardinality({k \in 1..8 : Pow10(k) <= x})

\* b^n for n >= 0, clamped just outside the range of long
RECURSIVE PowClamp(_, _)
PowClamp(b, n) ==
  IF n = 0 THEN 1
  ELSE LET r == PowClamp(b, n - 1) * b
       IN  IF r > LONG_MAX + 1 THEN LONG_MAX + 1
           ELSE IF r < LONG_MIN - 1 THEN LONG_MIN - 1 ELSE r

LongPow(a, b) ==
  IF b >= 0 THEN (IF Abs(a) <= 1 THEN ToLong(IF a = 0 THEN (IF b = 0 THEN 1 ELSE 0)
                                             ELSE IF a = 1 \/ b % 2 = 0 THEN 1 ELSE -1)
                  ELSE IF b > 64 THEN Undef
                  ELSE ToLong(PowClamp(a, b)))
  ELSE IF a = 0 THEN Undef
  ELSE IF a = 1 THEN ToLong(1)
  ELSE IF a = -1 THEN ToLong(IF b % 2 = 0 THEN 1 ELSE -1)
  ELSE ToLong(0)

LongUnary(type, v) ==
  CASE type = AST_TOK_NEG -> ToLong(-v)
    [] type = AST_TOK_NOT -> ToLong(IF v # 0 THEN 0 ELSE 1)
    [] type = AST_TOK_SQRT -> IF v < 0 THEN Undef ELSE ToLong(ISqrt(v, 0))
    [] type = AST_TOK_LN -> IF v <= 0 THEN Undef ELSE ToLong(LnFloor(v))
    [] type = AST_TOK_LOG -> IF v <= 0 THEN Undef ELSE ToLong(Log10Floor(v))

Bool01(b) == IF b THEN 1 ELSE 0

\* variant: GE evaluated as GT
LongBinary_GeStrict(type, v1, v2) ==
  CASE type = AST_TOK_PLUS -> ToLong(v1 + v2)
    [] type = AST_TOK_MINUS -> ToLong(v1 - v2)
    [] type = AST_TOK_MUL -> ToLong(v1 * v2)
    [] type = AST_TOK_DIV ->
         IF v2 = 0 \/ (v1 = LONG_MIN /\ v2 = -1) THEN Trap
         ELSE ToLong(TruncDiv(v1, v2))
    [] type = AST_TOK_POW -> LongPow(v1, v2)
    [] type = AST_TOK_AND -> ToLong(Bool01(v1 # 0 /\ v2 # 0))
    [] type = AST_TOK_OR -> ToLong(Bool01(v1 # 0 \/ v2 # 0))
    [] type = AST_TOK_EQ -> ToLong(Bool01(v1 = v2))
    [] type = AST_TOK_NEQ -> ToLong(Bool01(v1 # v2))
    [] type = AST_TOK_GT -> ToLong(Bool01(v1 > v2))
    [] type = AST_TOK_GE -> ToLong(Bool01(v1 > v2))
    [] type = AST_TOK_LT -> ToLong(Bool01(v1 < v2))
    [] type = AST_TOK_LE -> ToLong(Bool01(v1 <= v2))

LongBinary(type, v1, v2) ==
  CASE type = AST_TOK_PLUS -> ToLong(v1 + v2)
    [] type = AST_TOK_MINUS -> ToLong(v1 - v2)
    [] type = AST_TOK_MUL -> ToLong(v1 * v2)
    [] type = AST_TOK_DIV ->
         IF v2 = 0 \/ (v1 = LONG_MIN /\ v2 = -1) THEN Trap
         ELSE ToLong(TruncDiv(v1, v2))
    [] type = AST_TOK_POW -> LongPow(v1, v2)
    [] type = AST_TOK_AND -> ToLong(Bool01(v1 # 0 /\ v2 # 0))
    [] type = AST_TOK_OR -> ToLong(Bool01(v1 # 0 \/ v2 # 0))
    [] type = AST_TOK_EQ -> ToLong(Bool01(v1 = v2))
    [] type = AST_TOK_NEQ -> ToLong(Bool01(v1 # v2))
    [] type = AST_TOK_GT -> ToLong(Bool01(v1 > v2))
    [] type = AST_TOK_GE -> ToLong(Bool01(v1 >= v2))
    [] type = AST_TOK_LT -> ToLong(Bool01(v1 < v2))
    [] type = AST_TOK_LE -> ToLong(Bool01(v1 <= v2))

\* variant: an evaluator whose switch has no case for LN
UnaryToks_NoLn == {AST_TOK_NEG, AST_TOK_NOT, AST_TOK_SQRT, AST_TOK_LOG}

UnaryToks == {AST_TOK_NEG, AST_TOK_NOT, AST_TOK_SQRT, AST_TOK_LN, AST_TOK_LOG}

BinaryToks ==
  {AST_TOK_PLUS, AST_TOK_MINUS, AST_TOK_MUL, AST_TOK_DIV, AST_TOK_POW,
   AST_TOK_AND, AST_TOK_OR, AST_TOK_EQ, AST_TOK_NEQ, AST_TOK_GT, AST_TOK_GE,
   AST_TOK_LT, AST_TOK_LE}

\* var is the caller's array (a sequence) or <<>> for a null pointer
RECURSIVE ast_eval_long(_, _, _, _)
ast_eval_long(hp, node, var, ef) ==
  IF ef THEN Ev(0, TRUE, "ok", {})
  ELSE IF node = NULL THEN Ev(0, ef, "trap", {})
  ELSE LET nd == hp[node]
       IN  IF nd.type = AST_TOK_NUM THEN Ev(nd.value.l, ef, "ok", {})
           ELSE IF nd.type = AST_TOK_VAR
             THEN IF nd.value.l + 1 \in DOMAIN var
                    THEN Ev(var[nd.value.l + 1], ef, "ok", {nd.value.l})
                    ELSE Ev(0, ef, "ub", {nd.value.l})
           ELSE IF ast_tok_attr[nd.type].argc = 1
             THEN LET a == ast_eval_long(hp, nd.left, var, ef)
                  IN  IF a.st = "trap" THEN a
                      ELSE IF nd.type \notin UnaryToks
                        THEN Ev(0, TRUE, a.st, a.rd)
                      ELSE LET r == LongUnary(nd.type, a.v)
                           IN  Ev(r.v, a.err, Worst(a.st, r.st), a.rd)
           ELSE LET a == ast_eval_long(hp, nd.left, var, ef)
                    b == ast_eval_long(hp, nd.right, var, a.err)
                IN  IF a.st = "trap" THEN a
                    ELSE IF b.st = "trap" THEN Ev(0, b.err, "trap", a.rd \cup b.rd)
                    ELSE IF nd.type \notin BinaryToks
                      THEN Ev(0, TRUE, Worst(a.st, b.st), a.rd \cup b.rd)
                    ELSE LET r == LongBinary(nd.type, a.v, b.v)
                         IN  Ev(r.v, b.err, Worst(Worst(a.st, b.st), r.st),
                                a.rd \cup b.rd)

(***************************************************************************)
(* Double arithmetic on the tracked values.  Sums, products and quotients  *)
(* of dyadic fractions are exact in IEEE-754 at the sizes the model uses;  *)
(* every other finite result, and every result that depends on the sign    *)
(* of a zero, is "inexact" (not tracked).                                  *)
(***************************************************************************)
DExact(n, d) == LET q == DFrac(n, d) IN IF IsPow2(q.d) THEN q ELSE DInexact

DKnown(x) == x.k # "inexact"
DIsZero(x) == x.k = "fin" /\ x.n = 0
DNonZero(x) == x.k \in {"nan", "inf"} \/ (x.k = "fin" /\ x.n # 0)
DSign(x) == IF x.n < 0 THEN -1 ELSE IF x.n > 0 THEN 1 ELSE 0

DNeg(x) == IF x.k \in {"fin", "inf"} THEN [x EXCEPT !.n = -x.n] ELSE x

DAdd(x, y) ==
  IF x.k = "nan" \/ y.k = "nan" THEN DNaN
  ELSE IF ~DKnown(x) \/ ~DKnown(y) THEN DInexact
  ELSE IF x.k = "inf" /\ y.k = "inf" THEN (IF x.n = y.n THEN x ELSE DNaN)
  ELSE IF x.k = "inf" THEN x
  ELSE IF y.k = "inf" THEN y
  ELSE DExact(x.n * y.d + y.n * x.d, x.d * y.d)

DMul(x, y) ==
  IF x.k = "nan" \/ y.k = "nan" THEN DNaN
  ELSE IF ~DKnown(x) \/ ~DKnown(y) THEN DInexact
  ELSE IF x.k = "inf" \/ y.k = "inf"
    THEN (IF DIsZero(x) \/ DIsZero(y) THEN DNaN ELSE DInf(DSign(x) * DSign(y)))
  ELSE DExact(x.n * y.n, x.d * y.d)

DDiv(x, y) ==
  IF x.k = "nan" \/ y.k = "nan" THEN DNaN
  ELSE IF ~DKnown(x) \/ ~DKnown(y) THEN DInexact
  ELSE IF x.k = "inf" THEN (IF y.k = "inf" THEN DNaN
                            ELSE IF DIsZero(y) THEN DInexact
                            ELSE DInf(DSign(x) * DSign(y)))
  ELSE IF y.k = "inf" THEN DInt(0)
  ELSE IF DIsZero(y) THEN (IF DIsZero(x) THEN DNaN ELSE DInexact)
  ELSE DExact(x.n * y.d, x.d * y.n)

DLt(x, y) ==
  IF x.k = "inf" THEN x.n = -1 /\ y # x
  ELSE IF y.k = "inf" THEN y.n = 1
  ELSE x.n * y.d < y.n * x.d

\* a comparison: 1 or 0, false whenever an operand is nan
DRel(x, y, p(_, _)) ==
  IF x.k = "nan" \/ y.k = "nan" THEN DInt(0)
  ELSE IF ~DKnown(x) \/ ~DKnown(y) THEN DInexact
  ELSE DInt(Bool01(p(x, y)))

DSqrt(x) ==
  IF x.k \in {"nan", "inexact"} THEN x
  ELSE IF x.n < 0 THEN DNaN
  ELSE IF x.k = "inf" THEN x
  ELSE LET rn == ISqrt(x.n, 0)
           rd == ISqrt(x.d, 0)
       IN  IF rn * rn = x.n /\ rd * rd = x.d THEN DFrac(rn, rd) ELSE DInexact

DLog(x) ==
  IF x.k \in {"nan", "inexact"} THEN x
  ELSE IF x.n < 0 THEN DNaN
  ELSE IF x.k = "inf" THEN x
  ELSE IF x.n = 0 THEN DInf(-1)
  ELSE IF x.n = 1 /\ x.d = 1 THEN DInt(0)
  ELSE DInexact

RECURSIVE IntPow(_, _)
IntPow(b, n) == IF n = 0 THEN 1 ELSE b * IntPow(b, n - 1)

DPow(x, y) ==
  IF DIsZero(y) \/ x = DInt(1) THEN DInt(1)
  ELSE IF x.k = "nan" \/ y.k = "nan" THEN DNaN
  ELSE IF x.k # "fin" \/ y.k # "fin" \/ y.d # 1 THEN DInexact
  ELSE IF Abs(y.n) > 8 \/ Abs(x.n) > 16 \/ x.d > 16 THEN DInexact
  ELSE IF y.n > 0 THEN DExact(IntPow(x.n, y.n), IntPow(x.d, y.n))
  ELSE IF x.n = 0 THEN DInexact
  ELSE DExact(IntPow(x.d, -y.n), IntPow(x.n, -y.n))

DoubleUnary(type, v) ==
  CASE type = AST_TOK_NEG -> DNeg(v)
    [] type = AST_TOK_NOT ->
         IF DNonZero(v) THEN DInt(0) ELSE IF DIsZero(v) THEN DInt(1) ELSE DInexact
    [] type = AST_TOK_SQRT -> DSqrt(v)
    [] type = AST_TOK_LN -> DLog(v)
    [] type = AST_TOK_LOG -> DLog(v)

DoubleBinary(type, v1, v2) ==
  CASE type = AST_TOK_PLUS -> DAdd(v1, v2)
    [] type = AST_TOK_MINUS -> DAdd(v1, DNeg(v2))
    [] type = AST_TOK_MUL -> DMul(v1, v2)
    [] type = AST_TOK_DIV -> DDiv(v1, v2)
    [] type = AST_TOK_POW -> DPow(v1, v2)
    [] type = AST_TOK_AND ->
         IF DIsZero(v1) \/ DIsZero(v2) THEN DInt(0)
         ELSE IF DNonZero(v1) /\ DNonZero(v2) THEN DInt(1) ELSE DInexact
    [] type = AST_TOK_OR ->
         IF DNonZero(v1) \/ DNonZero(v2) THEN DInt(1)
         ELSE IF DIsZero(v1) /\ DIsZero(v2) THEN DInt(0) ELSE DInexact
    [] type = AST_TOK_EQ -> DRel(v1, v2, LAMBDA a, b : a = b)
    [] type = AST_TOK_NEQ ->
         IF v1.k = "nan" \/ v2.k = "nan" THEN DInt(1)
         ELSE DRel(v1, v2, LAMBDA a, b : a # b)
    [] type = AST_TOK_GT -> DRel(v1, v2, LAMBDA a, b : DLt(b, a))
    [] type = AST_TOK_GE -> DRel(v1, v2, LAMBDA a, b : ~DLt(a, b))
    [] type = AST_TOK_LT -> DRel(v1, v2, LAMBDA a, b : DLt(a, b))
    [] type = AST_TOK_LE -> DRel(v1, v2, LAMBDA a, b : ~DLt(b, a))

RECURSIVE ast_eval_double(_, _, _, _)
ast_eval_double(hp, node, var, ef) ==
  IF ef THEN Ev(DInt(0), TRUE, "ok", {})
  ELSE IF node = NULL THEN Ev(DInt(0), ef, "trap", {})
  ELSE LET nd == hp[node]
       IN  IF nd.type = AST_TOK_NUM THEN Ev(nd.value.d, ef, "ok", {})
           ELSE IF nd.type = AST_TOK_VAR
             THEN IF nd.value.l + 1 \in DOMAIN var
                    THEN Ev(DInt(var[nd.value.l + 1]), ef, "ok", {nd.value.l})
                    ELSE Ev(DInt(0), ef, "ub", {nd.value.l})
           ELSE IF ast_tok_attr[nd.type].argc = 1
             THEN LET a == ast_eval_double(hp, nd.left, var, ef)
                  IN  IF a.st = "trap" THEN a
                      ELSE IF nd.type \notin UnaryToks
                        THEN Ev(DInt(0), TRUE, a.st, a.rd)
                      ELSE Ev(DoubleUnary(nd.type, a.v), a.err, a.st, a.rd)
           ELSE LET a == ast_eval_double(hp, nd.left, var, ef)
                    b == ast_eval_double(hp, nd.right, var, a.err)
                IN  IF a.st = "trap" THEN a
                    ELSE IF b.st = "trap"
                      THEN Ev(DInt(0), b.err, "trap", a.rd \cup b.rd)
                    ELSE IF nd.type \notin BinaryToks
                      THEN Ev(DInt(0), TRUE, Worst(a.st, b.st), a.rd \cup b.rd)
                    ELSE Ev(DoubleBinary(nd.type, a.v, b.v), b.err,
                            Worst(a.st, b.st), a.rd \cup b.rd)

(***************************************************************************)
(* One invocation of ast_parse_token, up to its recursive call.            *)
(*   e, a   the handle's ast_error_t and ast_t on entry                    *)
(*   hp     the heap, node and srcp the arguments `node` and `src`         *)
(*   new    what malloc returns if ast_insert calls it                     *)
(*   ok     whether realloc succeeds if ast_record_var calls it            *)
(* The result holds the records and heap afterwards, the address malloc    *)
(* handed out (alloc) and the address passed to free (free), the           *)
(* arguments of the recursive call (node, c) and done = TRUE when the      *)
(* function returns without recursing (or the recursive call returns at    *)
(* once because the error code is set).  mcall and rcall tell whether      *)
(* malloc and realloc were called at all.                                  *)
(***************************************************************************)
PR(e, a, hp, alloc, free, node, c, done, mcall, rcall) ==
  [e |-> e, a |-> a, hp |-> hp, alloc |-> alloc, free |-> free, node |-> node,
   c |-> c, done |-> done, mcall |-> mcall, rcall |-> rcall]

ast_msg(e, msg, eptr) == [e EXCEPT !.msg = msg, !.eptr = eptr]

TokenError(e, msg, eptr) ==
  [ast_msg(e, msg, eptr) EXCEPT !.errno = AST_ERR_TOKEN]

Filled(hp, node) ==
  (IF hp[node].left # NULL THEN 1 ELSE 0) +
  (IF hp[node].right # NULL THEN 1 ELSE 0)

\* variant: the end of the string without the search for an opening
ParseEnd_NoParen(e, a, hp, node, srcp, c, full) ==
  LET e1 == IF ~full THEN TokenError(e, "incomplete expression", srcp) ELSE e
  IN  PR(e1, a, hp, NULL, NULL, node, c, TRUE, FALSE, FALSE)

\* end of the string (the first branch of ast_parse_token)
ParseEnd(e, a, hp, node, srcp, c, full) ==
  LET e1 == IF ~full THEN TokenError(e, "incomplete expression", srcp) ELSE e
      e2 == IF ScopeWalk(hp, node) # NULL
              THEN TokenError(e1, "unclosed parenthesis", srcp) ELSE e1
  IN  PR(e2, a, hp, NULL, NULL, node, c, TRUE, FALSE, FALSE)

\* variant: no message for an operator that stands where a value must
TokenMsg_NoValue(e, tok, full, srcp) ==
  LET ty == ast_tok_attr[tok].type
      e1 == IF tok = AST_TOK_UNDEF THEN ast_msg(e, "unrecognised token", srcp)
            ELSE e
  IN  IF full
        THEN (IF tok = AST_TOK_PAREN_LEFT
                 \/ ty \in {AST_TOKT_UOPT, AST_TOKT_FUNC, AST_TOKT_VALUE}
                THEN ast_msg(e1, "missing operator", srcp) ELSE e1)
        ELSE e1

\* the messages for a token that cannot stand where it was found
TokenMsg(e, tok, full, srcp) ==
  LET ty == ast_tok_attr[tok].type
      e1 == IF tok = AST_TOK_UNDEF THEN ast_msg(e, "unrecognised token", srcp)
            ELSE e
  IN  IF full
        THEN (IF tok = AST_TOK_PAREN_LEFT
                 \/ ty \in {AST_TOKT_UOPT, AST_TOKT_FUNC, AST_TOKT_VALUE}
                THEN ast_msg(e1, "missing operator", srcp) ELSE e1)
        ELSE (IF tok = AST_TOK_PAREN_RIGHT \/ ty = AST_TOKT_BOPT
                THEN ast_msg(e1, "missing value", srcp) ELSE e1)

\* the insertion of the token and the recording of a variable; ins is the
\* result of ast_insert and rv that of ast_record_var
ParseInsert(e3, a, fr, new, mcall, pn, ins, rv) ==
  IF ins.ret = NULL
    THEN PR([e3 EXCEPT !.errno = AST_ERR_MEMORY], a, ins.hp, NULL, fr, NULL,
            pn.end, TRUE, mcall, FALSE)
    ELSE PR(rv.e, rv.a, ins.hp, IF mcall THEN new ELSE NULL, fr, ins.ret,
            pn.end, rv.e.errno # 0, mcall, rv.realloc)

\* the number of a NUM token; pn is the result of ast_parse_num
ParseNum(e3, a, hp1, fr, node1, new, ok, t, pn) ==
  IF pn.ret # 0
    THEN PR(TokenError(e3, "failed to recognise the number", t.c), a, hp1,
            NULL, fr, node1, t.c, TRUE, FALSE, FALSE)
    ELSE ParseInsert(e3, a, fr, new,
           t.tok # AST_TOK_PAREN_RIGHT /\ hp1[node1].type # AST_TOK_UNDEF, pn,
           IF t.tok # AST_TOK_PAREN_RIGHT
             THEN ast_insert(hp1, node1, t.tok, pn.res, new)
             ELSE [hp |-> hp1, ret |-> node1],
           IF t.tok = AST_TOK_VAR THEN ast_record_var(a, e3, pn.res.l, ok)
           ELSE [a |-> a, e |-> e3, realloc |-> FALSE])

\* variant: a token other than a number leaves the cursor on its last
\* character
ParseParen_NoStep(e3, a, hp, node, new, ok, c, t, match, splice) ==
  IF e3.msg # NOMSG
    THEN PR([e3 EXCEPT !.errno = AST_ERR_TOKEN], a,
            IF splice THEN ast_delete(hp, match) ELSE hp, NULL,
            IF splice THEN hp[match].left ELSE NULL,
            IF match # NULL THEN match ELSE node, c, TRUE, FALSE, FALSE)
    ELSE ParseNum(e3, a, IF splice THEN ast_delete(hp, match) ELSE hp,
                  IF splice THEN hp[match].left ELSE NULL,
                  IF match # NULL THEN match ELSE node, new, ok, t,
                  IF t.tok = AST_TOK_NUM THEN ast_parse_num(a.dtype, e3.str, t.c)
                  ELSE [ret |-> 0, res |-> t.v, end |-> t.c])

\* a right parenthesis; match is the enclosing left parenthesis or
\* function, e3 the error carrier after the parenthesis messages
ParseParen(e3, a, hp, node, new, ok, c, t, match, splice) ==
  IF e3.msg # NOMSG
    THEN PR([e3 EXCEPT !.errno = AST_ERR_TOKEN], a,
            IF splice THEN ast_delete(hp, match) ELSE hp, NULL,
            IF splice THEN hp[match].left ELSE NULL,
            IF match # NULL THEN match ELSE node, c, TRUE, FALSE, FALSE)
    ELSE ParseNum(e3, a, IF splice THEN ast_delete(hp, match) ELSE hp,
                  IF splice THEN hp[match].left ELSE NULL,
                  IF match # NULL THEN match ELSE node, new, ok, t,
                  IF t.tok = AST_TOK_NUM THEN ast_parse_num(a.dtype, e3.str, t.c)
                  ELSE [ret |-> 0, res |-> t.v, end |-> t.c + 1])

\* variant: a right parenthesis that leaves the left parenthesis in the tree
ParseCheck_NoSplice(e2, a, hp, node, srcp, new, ok, c, t, match) ==
  LET rpar == t.tok = AST_TOK_PAREN_RIGHT
      empty == rpar /\ hp[node].type = AST_TOK_PAREN_LEFT
  IN  ParseParen(IF empty THEN ast_msg(e2, "empty parenthesis", srcp)
                 ELSE IF rpar /\ match = NULL
                   THEN ast_msg(e2, "unbalanced parenthesis", srcp)
                 ELSE e2,
                 a, hp, node, new, ok, c, t, match, FALSE)

\* variant: a right parenthesis without the test for a missing opening
ParseCheck_NoUnbalanced(e2, a, hp, node, srcp, new, ok, c, t, match) ==
  LET rpar == t.tok = AST_TOK_PAREN_RIGHT
      empty == rpar /\ hp[node].type = AST_TOK_PAREN_LEFT
  IN  ParseParen(IF empty THEN ast_msg(e2, "empty parenthesis", srcp) ELSE e2,
                 a, hp, node, new, ok, c, t, match,
                 match # NULL /\ hp[match].type = AST_TOK_PAREN_LEFT)

\* variant: a right parenthesis splicing whatever opening it matches
ParseCheck_SpliceAll(e2, a, hp, node, srcp, new, ok, c, t, match) ==
  LET rpar == t.tok = AST_TOK_PAREN_RIGHT
      empty == rpar /\ hp[node].type = AST_TOK_PAREN_LEFT
  IN  ParseParen(IF empty THEN ast_msg(e2, "empty parenthesis", srcp)
                 ELSE IF rpar /\ match = NULL
                   THEN ast_msg(e2, "unbalanced parenthesis", srcp)
                 ELSE e2,
                 a, hp, node, new, ok, c, t, match, match # NULL)

\* the checks on the token t found at c
ParseCheck(e2, a, hp, node, srcp, new, ok, c, t, match) ==
  LET rpar == t.tok = AST_TOK_PAREN_RIGHT
      empty == rpar /\ hp[node].type = AST_TOK_PAREN_LEFT
  IN  ParseParen(IF empty THEN ast_msg(e2, "empty parenthesis", srcp)
                 ELSE IF rpar /\ match = NULL
                   THEN ast_msg(e2, "unbalanced parenthesis", srcp)
                 ELSE e2,
                 a, hp, node, new, ok, c, t, match,
                 match # NULL /\ hp[match].type = AST_TOK_PAREN_LEFT)

\* the token t found at c
ParseSwitch(e, a, hp, node, srcp, new, ok, c, full, t) ==
  IF t.ovf
    THEN PR(TokenError(e, "the variable index is too large", srcp), a, hp,
            NULL, NULL, node, c, TRUE, FALSE, FALSE)
    ELSE ParseCheck(TokenMsg(e, t.tok, full, srcp), a, hp, node, srcp, new,
                    ok, c, t,
                    IF t.tok = AST_TOK_PAREN_RIGHT
                       /\ hp[node].type # AST_TOK_PAREN_LEFT
                      THEN ScopeWalk(hp, node) ELSE NULL)

ParseAt(e, a, hp, node, srcp, new, ok, c, full) ==
  IF CharAt(e.str, c) = NUL
    THEN ParseEnd(e, a, hp, node, srcp, c, full)
    ELSE ParseSwitch(e, a, hp, node, srcp, new, ok, c, full,
                     Tokenize(e.str, c, a.dtype, full))

ast_parse_token(e, a, hp, node, srcp, new, ok) ==
  ParseAt(e, a, hp, node, srcp, new, ok, ast_skip_space(e.str, srcp),
          Filled(hp, node) >= ast_tok_attr[hp[node].type].argc)

(***************************************************************************)
(* The allocator: malloc returns NULL, an address that was released, or    *)
(* the lowest address never handed out.                                    *)
(***************************************************************************)
Min(S) == CHOOSE x \in S : \A y \in S : x <= y

\* variant: an allocator without mutual exclusion, which may hand out a
\* block that is still in use
MallocRet_Shared ==
  LET unused == Addr \ (allocd \cup freed)
  IN  {NULL} \cup freed \cup allocd
        \cup (IF unused = {} THEN {} ELSE {Min(unused)})

MallocRet ==
  LET unused == Addr \ (allocd \cup freed)
  IN  {NULL} \cup freed \cup (IF unused = {} THEN {} ELSE {Min(unused)})

(***************************************************************************)
(* Inputs.                                                                 *)
(***************************************************************************)
RECURSIVE Concat(_)
Concat(ps) == IF ps = <<>> THEN <<>> ELSE Head(ps) \o Concat(Tail(ps))

SeqsUpTo(S, n) == UNION {[1..k -> S] : k \in 0..n}

Exprs(P, n) == {Concat(ps) : ps \in SeqsUpTo(P, n)}

\* lexemes of the expressions of the life-cycle runs
Pieces ==
  {<<"9", "9">>, <<"$", "2">>, <<"+">>, <<"/">>, <<" ">>}

\* lexemes of the expressions of the build-only runs
PiecesB ==
  {<<"1">>, <<"$", "2">>, <<"-">>, <<"*">>, <<"(">>, <<")">>,
   <<"s", "q", "r", "t", "(">>}

\* lexemes of the expressions of the variable runs
PiecesV == {<<"$", "1">>, <<"$", "{", "2", "}">>, <<"$", "3">>, <<"+">>}

\* the binary operators as they are written
BinOps ==
  {<<"+">>, <<"-">>, <<"*">>, <<"/">>, <<"^">>, <<"&", "&">>, <<"|", "|">>,
   <<"=", "=">>, <<"!", "=">>, <<">">>, <<">", "=">>, <<"<">>, <<"<", "=">>}

\* the expression `2 o1 3 o2 4`
Triple(o1, o2) == <<"2">> \o o1 \o <<"3">> \o o2 \o <<"4">>

Vals == {0, 1}

\* the arrays a caller may pass to ast_eval: up to MaxSize equal elements
VarArrays == {[i \in 1..k |-> v] : k \in 0..MaxSize, v \in Vals}

\* (var, size): a null pointer with no or some length, or an array with
\* its length
EvalArgs ==
  {[null |-> TRUE, arr |-> <<>>, size |-> n] : n \in {0, MaxSize}} \cup
  {[null |-> FALSE, arr |-> v, size |-> Len(v)] : v \in VarArrays}

\* what a computation with undefined behaviour may do: kill the process,
\* or leave one of these values in the result
UBOutcomes == {"trap", "min", "zero"}
UBVal(o) == IF o = "min" THEN LONG_MIN ELSE 0

NoCall ==
  [h |-> "A", op |-> "init", done |-> TRUE, ret |-> 0, str |-> NULLSTR,
   dtype |-> AST_DTYPE_DOUBLE, var |-> [null |-> TRUE, arr |-> <<>>, size |-> 0],
   vnull |-> TRUE, rd |-> {}]

Unwritten == [written |-> FALSE, ub |-> FALSE, v |-> ZeroValue]
Written(v) == [written |-> TRUE, ub |-> FALSE, v |-> v]
WrittenUB(l) == [written |-> TRUE, ub |-> TRUE, v |-> Value(l, DInexact)]

(***************************************************************************)
(* ast_init: the state of a handle right after construction.               *)
(***************************************************************************)
ast_init_error == [errno |-> 0, msg |-> NOMSG, str |-> NULLSTR, eptr |-> NULL]

ast_init ==
  [dtype |-> "UNSET", nvar |-> 0, vidx |-> <<>>, cap |-> 0, ast |-> NULL]

InitWith(inputs, live) ==
  /\ input \in inputs
  /\ hst = [h \in H |-> IF h \in live THEN "live" ELSE "unused"]
  /\ err = [h \in H |-> ast_init_error]
  /\ ast = [h \in H |-> ast_init]
  /\ heap = [x \in Addr |-> ast_node_t(AST_TOK_UNDEF, ZeroValue)]
  /\ allocd = {}
  /\ freed = {}
  /\ owner = [x \in Addr |-> "none"]
  /\ dfree = FALSE
  /\ pc = [h \in H |-> "idle"]
  /\ first = [h \in H |-> NULL]
  /\ cur = [h \in H |-> NULL]
  /\ src = [h \in H |-> 0]
  /\ last = NoCall
  /\ out = [h \in H |-> Unwritten]
  /\ ncalls = 0
  /\ crashed = FALSE

Init == InitWith(Exprs(Pieces, MaxToks), {"A"})

Callable(h) == hst[h] = "live" /\ pc[h] = "idle" /\ ~crashed

(***************************************************************************)
(* ast_build, from its entry to the call of ast_parse_token.  When the     *)
(* handle's error code is already set, ast_parse_token returns at once     *)
(* and so does ast_build, within this step.                                *)
(***************************************************************************)
BuildCall(h, s, dt, ret, fin) ==
  [NoCall EXCEPT !.h = h, !.op = "build", !.done = fin, !.ret = ret,
                 !.str = s, !.dtype = dt]

\* variant: ast_build without the test for an existing tree
BuildCheck_NoExist(a, s) ==
  IF s = NULLSTR \/ CharAt(s, ast_skip_space(s, 1)) = NUL
    THEN AST_ERR_STRING
  ELSE 0

\* variant: ast_build testing the first character without skipping spaces
BuildCheck_NoSkip(a, s) ==
  IF a.ast # NULL THEN AST_ERR_EXIST
  ELSE IF s = NULLSTR \/ CharAt(s, 1) = NUL THEN AST_ERR_STRING
  ELSE 0

\* the argument checks of ast_build; 0 when the build goes ahead
BuildCheck(a, s) ==
  IF a.ast # NULL THEN AST_ERR_EXIST
  ELSE IF s = NULLSTR \/ CharAt(s, ast_skip_space(s, 1)) = NUL
    THEN AST_ERR_STRING
  ELSE 0

ast_build(h, s, dt) ==
  /\ Callable(h)
  /\ ncalls < MaxCalls
  /\ ncalls' = ncalls + 1
  /\ out' = out
  /\ UNCHANGED <<input, hst, dfree, crashed>>
  /\ LET chk == BuildCheck(ast[h], s)
     IN
     IF chk = AST_ERR_EXIST
       THEN /\ err' = [err EXCEPT ![h].errno = AST_ERR_EXIST]
            /\ last' = BuildCall(h, s, dt, AST_ERR_EXIST, TRUE)
            /\ UNCHANGED <<ast, heap, allocd, freed, owner, pc, first, cur, src>>
     ELSE IF chk = AST_ERR_STRING
       THEN /\ err' = [err EXCEPT ![h].str = s, ![h].errno = AST_ERR_STRING]
            /\ last' = BuildCall(h, s, dt, AST_ERR_STRING, TRUE)
            /\ UNCHANGED <<ast, heap, allocd, freed, owner, pc, first, cur, src>>
     ELSE \E new \in MallocRet :
       IF new = NULL
         THEN /\ err' = [err EXCEPT ![h].str = s, ![h].errno = AST_ERR_MEMORY]
              /\ ast' = [ast EXCEPT ![h].dtype = dt, ![h].ast = NULL]
              /\ last' = BuildCall(h, s, dt, AST_ERR_MEMORY, TRUE)
              /\ UNCHANGED <<heap, allocd, freed, owner, pc, first, cur, src>>
         ELSE /\ err' = [err EXCEPT ![h].str = s]
              /\ ast' = [ast EXCEPT ![h].dtype = dt, ![h].ast = new]
              /\ heap' = ast_create(heap, new, AST_TOK_UNDEF, ZeroValue)
              /\ allocd' = allocd \cup {new}
              /\ freed' = freed \ {new}
              /\ owner' = [owner EXCEPT ![new] = h]
              /\ first' = [first EXCEPT ![h] = new]
              /\ IF err[h].errno # 0
                   THEN /\ last' = BuildCall(h, s, dt, err[h].errno, TRUE)
                        /\ UNCHANGED <<pc, cur, src>>
                   ELSE /\ last' = BuildCall(h, s, dt, 0, FALSE)
                        /\ pc' = [pc EXCEPT ![h] = "parse"]
                        /\ cur' = [cur EXCEPT ![h] = new]
                        /\ src' = [src EXCEPT ![h] = ast_skip_space(s, 1)]

Build == \E h \in H, s \in {input, NULLSTR}, dt \in ast_dtype_t : ast_build(h, s, dt)

(***************************************************************************)
(* One recursion level of ast_parse_token.  When it returns instead of     *)
(* recursing, ast_build finishes in the same step: it returns the error    *)
(* code, or sets ast->ast to the root found from its first node and        *)
(* returns zero.                                                           *)
(***************************************************************************)
\* the effect on the handle of one level of ast_parse_token with result r
ParseStep(h, new, ok, r) ==
  /\ r.mcall \/ new = NULL
  /\ r.rcall \/ ok
  /\ err' = [err EXCEPT ![h] = r.e]
  /\ heap' = r.hp
  /\ allocd' = (allocd \ {r.free}) \cup ({r.alloc} \ {NULL})
  /\ freed' = (freed \cup ({r.free} \cap allocd)) \ {r.alloc}
  /\ dfree' = (dfree \/ (r.free # NULL /\ r.free \notin allocd))
  /\ owner' = IF r.alloc # NULL THEN [owner EXCEPT ![r.alloc] = h]
              ELSE owner
  /\ ast' = [ast EXCEPT ![h] =
               IF r.done /\ r.e.errno = 0
                 THEN [r.a EXCEPT !.ast = ast_root(r.hp, first[h])]
                 ELSE r.a]
  /\ IF r.done
       THEN /\ pc' = [pc EXCEPT ![h] = "idle"]
            /\ last' = [last EXCEPT !.done = TRUE, !.ret = r.e.errno]
            /\ UNCHANGED <<cur, src>>
       ELSE /\ cur' = [cur EXCEPT ![h] = r.node]
            /\ src' = [src EXCEPT ![h] = r.c]
            /\ UNCHANGED <<pc, last>>

ParseToken(h) ==
  /\ hst[h] = "live" /\ pc[h] = "parse" /\ ~crashed
  /\ \E new \in MallocRet, ok \in BOOLEAN :
       ParseStep(h, new, ok,
                 ast_parse_token(err[h], ast[h], heap, cur[h], src[h], new, ok))
  /\ UNCHANGED <<input, hst, first, out, ncalls, crashed>>

Parse == \E h \in H : ParseToken(h)

(***************************************************************************)
(* ast_eval.                                                               *)
(***************************************************************************)
EvalCall(h, va, vnull, ret, rd) ==
  [NoCall EXCEPT !.h = h, !.op = "eval", !.done = TRUE, !.ret = ret,
                 !.var = va, !.vnull = vnull, !.rd = rd]

\* variant: ast_eval without the test of the stored error code
EvalCheck_NoSticky(e, a, va, vnull) ==
  IF a.ast = NULL THEN AST_ERR_NOEXP
  ELSE IF va.null /\ va.size # 0 THEN AST_ERR_VAR
  ELSE IF vnull THEN AST_ERR_VALUE
  ELSE IF a.nvar # 0 /\ va.size <= a.vidx[a.nvar] THEN AST_ERR_SIZE
  ELSE 0

\* variant: ast_eval testing the result pointer before the array
EvalCheck_Swapped(e, a, va, vnull) ==
  IF e.errno # 0 THEN e.errno
  ELSE IF a.ast = NULL THEN AST_ERR_NOEXP
  ELSE IF vnull THEN AST_ERR_VALUE
  ELSE IF va.null /\ va.size # 0 THEN AST_ERR_VAR
  ELSE IF a.nvar # 0 /\ va.size <= a.vidx[a.nvar] THEN AST_ERR_SIZE
  ELSE 0

\* variant: ast_eval without the test of the array size
EvalCheck_NoSize(e, a, va, vnull) ==
  IF e.errno # 0 THEN e.errno
  ELSE IF a.ast = NULL THEN AST_ERR_NOEXP
  ELSE IF va.null /\ va.size # 0 THEN AST_ERR_VAR
  ELSE IF vnull THEN AST_ERR_VALUE
  ELSE 0

\* the checks of ast_eval in their order; 0 when the evaluator is run
EvalCheck(e, a, va, vnull) ==
  IF e.errno # 0 THEN e.errno
  ELSE IF a.ast = NULL THEN AST_ERR_NOEXP
  ELSE IF va.null /\ va.size # 0 THEN AST_ERR_VAR
  ELSE IF vnull THEN AST_ERR_VALUE
  ELSE IF a.nvar # 0 /\ va.size <= a.vidx[a.nvar] THEN AST_ERR_SIZE
  ELSE 0

Evaluate(a, hp, va) ==
  IF a.dtype = AST_DTYPE_DOUBLE
    THEN LET r == ast_eval_double(hp, a.ast, va.arr, FALSE)
         IN  [r EXCEPT !.v = Value(0, r.v)]
    ELSE LET r == ast_eval_long(hp, a.ast, va.arr, FALSE)
         IN  [r EXCEPT !.v = Value(r.v, DInt(0))]

\* variant: ast_eval storing the evaluation error code after every run of
\* the evaluator
EvalRun_Marks(h, va, vnull, r) ==
  \E o \in (IF r.st = "ok" THEN {"value"}
            ELSE IF r.st = "trap" THEN {"trap"}
            ELSE UBOutcomes) :
    IF o = "trap"
      THEN /\ crashed' = TRUE
           /\ last' = [EvalCall(h, va, vnull, 0, r.rd) EXCEPT !.done = FALSE]
           /\ out' = [out EXCEPT ![h] = Unwritten]
           /\ UNCHANGED err
      ELSE /\ out' = [out EXCEPT ![h] =
                        IF o = "value" THEN Written(r.v)
                        ELSE WrittenUB(UBVal(o))]
           /\ err' = [err EXCEPT ![h].errno = AST_ERR_EVAL]
           /\ last' = EvalCall(h, va, vnull,
                               IF r.err THEN AST_ERR_EVAL ELSE 0, r.rd)
           /\ UNCHANGED crashed

\* the call of the evaluator and what ast_eval does with its result r
EvalRun(h, va, vnull, r) ==
  \E o \in (IF r.st = "ok" THEN {"value"}
            ELSE IF r.st = "trap" THEN {"trap"}
            ELSE UBOutcomes) :
    IF o = "trap"
      THEN /\ crashed' = TRUE
           /\ last' = [EvalCall(h, va, vnull, 0, r.rd) EXCEPT !.done = FALSE]
           /\ out' = [out EXCEPT ![h] = Unwritten]
           /\ UNCHANGED err
      ELSE /\ out' = [out EXCEPT ![h] =
                        IF o = "value" THEN Written(r.v)
                        ELSE WrittenUB(UBVal(o))]
           /\ err' = IF r.err THEN [err EXCEPT ![h].errno = AST_ERR_EVAL]
                     ELSE err
           /\ last' = EvalCall(h, va, vnull,
                               IF r.err THEN AST_ERR_EVAL ELSE 0, r.rd)
           /\ UNCHANGED crashed

\* ast_eval with chk the outcome of its checks
EvalDo(h, va, vnull, chk) ==
  IF chk # 0
    THEN /\ err' = [err EXCEPT ![h].errno = chk]
         /\ last' = EvalCall(h, va, vnull, chk, {})
         /\ out' = [out EXCEPT ![h] = Unwritten]
         /\ UNCHANGED crashed
    ELSE EvalRun(h, va, vnull, Evaluate(ast[h], heap, va))

ast_eval(h, va, vnull) ==
  /\ Callable(h)
  /\ ncalls < MaxCalls
  /\ ncalls' = ncalls + 1
  /\ UNCHANGED <<input, hst, ast, heap, allocd, freed, owner, dfree, pc, first,
                 cur, src>>
  /\ EvalDo(h, va, vnull, EvalCheck(err[h], ast[h], va, vnull))

Eval == \E h \in H, va \in EvalArgs, vnull \in BOOLEAN : ast_eval(h, va, vnull)

(***************************************************************************)
(* ast_destroy.                                                            *)
(***************************************************************************)
ast_destroy(h) ==
  /\ Callable(h)
  /\ LET fs == ast_free(heap, ast[h].ast, MaxNodes + 1)
         S == {fs[i] : i \in DOMAIN fs}
     IN  /\ allocd' = allocd \ S
         /\ freed' = freed \cup (S \cap allocd)
         /\ dfree' = (dfree \/ ~(S \subseteq allocd) \/ Cardinality(S) # Len(fs))
  /\ hst' = [hst EXCEPT ![h] = "destroyed"]
  /\ last' = [NoCall EXCEPT !.h = h, !.op = "destroy"]
  /\ ncalls' = ncalls + 1
  /\ UNCHANGED <<input, err, ast, heap, owner, pc, first, cur, src, out, crashed>>

Destroy == \E h \in H : ast_destroy(h)

Next == Build \/ Parse \/ Eval \/ Destroy

Spec == Init /\ [][Next]_vars

\* build-only runs over longer expressions: one call of ast_build
InitB == InitWith(Exprs(PiecesB, MaxToksB), {"A"})

BuildOnce == ncalls = 0 /\ Build

NextB == BuildOnce \/ Parse

SpecB == InitB /\ [][NextB]_vars

\* build-only runs over expressions made of variables
InitV == InitWith(Exprs(PiecesV, MaxToksV), {"A"})

SpecV == InitV /\ [][NextB]_vars

\* build-only runs over the expressions with two binary operators
InitA == InitWith({Triple(o1, o2) : o1, o2 \in BinOps}, {"A"})

SpecA == InitA /\ [][NextB]_vars

\* paired runs: an expression E is built with one handle and then `(E)`
\* with another handle and the same data type
PiecesP ==
  {<<"2">>, <<"$", "1">>, <<"+">>, <<"*">>, <<"-">>, <<"(">>, <<")">>}

Example15 == <<"(", "2", "+", "3", ")", "*", "4">>

InitP == InitWith(Exprs(PiecesP, MaxToksP) \cup {Example15}, {"A", "B"})

BuildPlain == ncalls = 0 /\ \E dt \in ast_dtype_t : ast_build("A", input, dt)

BuildParen ==
  /\ ncalls = 1 /\ last.op = "build" /\ last.h = "A" /\ last.done
  /\ ast_build("B", <<"(">> \o input \o <<")">>, last.dtype)

NextP == BuildPlain \/ BuildParen \/ Parse

SpecP == InitP /\ [][NextP]_vars

\* token-order runs: one build of an expression over a value, a variable,
\* a unary and a binary operator, a parenthesis and a function
PiecesT ==
  {<<"1">>, <<"$", "1">>, <<"!">>, <<"+">>, <<"(">>, <<"l", "n", "(">>}

InitT == InitWith(Exprs(PiecesT, MaxToksT), {"A"})

SpecT == InitT /\ [][NextB]_vars

\* the decimal digits of n
RECURSIVE Digits(_)
Digits(n) ==
  IF n < 10 THEN <<DigitChars[n + 1]>>
  ELSE Append(Digits(n \div 10), DigitChars[(n % 10) + 1])

\* the variable references `$d` and `${...}`
VarD(d) == <<AST_VAR_FLAG, DigitChars[d + 1]>>
VarN(ds) == <<AST_VAR_FLAG, AST_VAR_START>> \o ds \o <<AST_VAR_END>>

\* written indices of the variable runs, the largest long and its successor
\* among them
IndicesW == {0, 1, 2, 12, LONG_MAX, LONG_MAX + 1}

\* a `$` that begins no variable reference
BadRefs ==
  {VarD(0), VarN(<<"0">>), VarN(<<>>), <<"$">>, <<"$", "x">>, <<"$", " ", "1">>,
   <<"$", "$", "1">>, <<"$", "}">>, <<"$", "-", "1">>}

\* variable runs: one variable reference is built and then evaluated with
\* arrays whose elements differ from their neighbours
InitW ==
  InitWith({VarD(d) : d \in 0..9} \cup {VarN(Digits(n)) : n \in IndicesW}
             \cup {VarN(<<"0", "7">>)} \cup BadRefs, {"A"})

EvalArgsW ==
  {[null |-> FALSE, arr |-> [i \in 1..n |-> (i + k) % 3], size |-> n] :
     n \in {1, 9, 12, LONG_MAX}, k \in 0..1}

EvalW == \E va \in EvalArgsW : ast_eval("A", va, FALSE)

NextW == BuildOnce \/ Parse \/ EvalW

SpecW == InitW /\ [][NextW]_vars

\* logic runs.  The evaluator is applied to a node of each logical and
\* relational kind over NUM leaves of chosen values, the tree laid out as
\* ast_insert lays it out (the EQ node included, which ast_eval_long and
\* ast_eval_double evaluate although no expression builds it), or to the
\* tree built from the expression Example24.
LogicToks ==
  {AST_TOK_AND, AST_TOK_OR, AST_TOK_NOT, AST_TOK_EQ, AST_TOK_NEQ, AST_TOK_LT,
   AST_TOK_LE, AST_TOK_GT, AST_TOK_GE}

LongsL == {LONG_MIN, -1, 0, 1, 3, LONG_MAX}

DoublesL ==
  {DNaN, DInf(1), DInf(-1), DInt(-1), DInt(0), DFrac(1, 2), DInt(1), DInt(3)}

LeavesL(dt) ==
  IF dt = AST_DTYPE_LONG THEN {Value(v, DInt(0)) : v \in LongsL}
  ELSE {Value(0, d) : d \in DoublesL}

\* the heap holding kind(v1, v2), or kind(v1) for a unary kind, in the
\* nodes 1 to 3
NodeHeap(kind, v1, v2) ==
  [x \in Addr |->
     IF ast_tok_attr[kind].argc = 1
       THEN (IF x = 1 THEN [ast_node_t(kind, ZeroValue) EXCEPT !.left = 2]
             ELSE IF x = 2 THEN [ast_node_t(AST_TOK_NUM, v1) EXCEPT !.parent = 1]
             ELSE ast_node_t(AST_TOK_UNDEF, ZeroValue))
       ELSE (IF x = 1 THEN [ast_node_t(AST_TOK_NUM, v1) EXCEPT !.parent = 2]
             ELSE IF x = 2
               THEN [ast_node_t(kind, ZeroValue) EXCEPT !.left = 1, !.right = 3]
             ELSE IF x = 3 THEN [ast_node_t(AST_TOK_NUM, v2) EXCEPT !.parent = 2]
             ELSE ast_node_t(AST_TOK_UNDEF, ZeroValue))]

NodeRoot(kind) == IF ast_tok_attr[kind].argc = 1 THEN 1 ELSE 2
NodeSet(kind) == IF ast_tok_attr[kind].argc = 1 THEN {1, 2} ELSE {1, 2, 3}

InitNode ==
  \E kind \in LogicToks, dt \in ast_dtype_t :
    \E v1, v2 \in LeavesL(dt) :
      /\ input = NULLSTR
      /\ hst = [h \in H |-> IF h = "A" THEN "live" ELSE "unused"]
      /\ err = [h \in H |-> ast_init_error]
      /\ ast = [h \in H |->
                  IF h = "A" THEN [ast_init EXCEPT !.dtype = dt,
                                                   !.ast = NodeRoot(kind)]
                  ELSE ast_init]
      /\ heap = NodeHeap(kind, v1, v2)
      /\ allocd = NodeSet(kind)
      /\ freed = {}
      /\ owner = [x \in Addr |-> IF x \in NodeSet(kind) THEN "A" ELSE "none"]
      /\ dfree = FALSE
      /\ pc = [h \in H |-> "idle"]
      /\ first = [h \in H |-> IF h = "A" THEN 1 ELSE NULL]
      /\ cur = [h \in H |-> NULL]
      /\ src = [h \in H |-> 0]
      /\ last = NoCall
      /\ out = [h \in H |-> Unwritten]
      /\ ncalls = 0
      /\ crashed = FALSE

Example24 ==
  <<"$", "1", " ", ">", "=", " ", "$", "2", " ", "&", "&", " ",
    "$", "2", " ", "!", "=", " ", "0">>

InitL == InitNode \/ InitWith({Example24}, {"A"})

EvalArgsL ==
  {[null |-> FALSE, arr |-> v, size |-> Len(v)] :
     v \in {<<>>, <<3, 1>>, <<1, 3>>, <<3, 0>>, <<0, 0>>, <<-1, -1>>}}

EvalL == \E va \in EvalArgsL : ast_eval("A", va, FALSE)

NextL == BuildOnce \/ Parse \/ EvalL

SpecL == InitL /\ [][NextL]_vars

\* evaluation runs: one build of an expression with operators, parentheses
\* and a function, then calls of ast_eval
PiecesE ==
  {<<"1">>, <<"$", "1">>, <<"-">>, <<"!">>, <<"(">>, <<")">>,
   <<"l", "n", "(">>}

InitE == InitWith(Exprs(PiecesE, MaxToksE), {"A"})

EvalArgsE ==
  {[null |-> FALSE, arr |-> v, size |-> Len(v)] : v \in {<<>>, <<0>>, <<1>>}}

EvalE == \E va \in EvalArgsE : ast_eval("A", va, FALSE)

NextE == BuildOnce \/ Parse \/ EvalE

SpecE == InitE /\ [][NextE]_vars

\* function runs: one build of an expression over a number, a product,
\* parentheses and the three functions, then evaluations
PiecesF ==
  {<<"1">>, <<"*">>, <<"(">>, <<")">>, <<"s", "q", "r", "t", "(">>,
   <<"l", "n", "(">>, <<"l", "o", "g", "(">>}

Example30 ==
  <<"s", "q", "r", "t", "(", "l", "n", "(", "1", ")", ")">>

InitF == InitWith(Exprs(PiecesF, MaxToksF) \cup {Example30}, {"A"})

EvalF == ast_eval("A", [null |-> FALSE, arr |-> <<>>, size |-> 0], FALSE)

NextF == BuildOnce \/ Parse \/ EvalF

SpecF == InitF /\ [][NextF]_vars

\* unary runs: one build of `u 2 b 3` for a unary operator u and a binary
\* operator b, or of `2^-3*4` or `-2^2`, then evaluations
UnOps == {<<"-">>, <<"!">>}

UnaryExpr(u, b) == u \o <<"2">> \o b \o <<"3">>

Example32 == <<"2", "^", "-", "3", "*", "4">>

ExampleSq == <<"-", "2", "^", "2">>

InitU ==
  InitWith({UnaryExpr(u, b) : u \in UnOps, b \in BinOps}
             \cup {Example32, ExampleSq}, {"A"})

EvalU == ast_eval("A", [null |-> FALSE, arr |-> <<>>, size |-> 0], FALSE)

NextU == BuildOnce \/ Parse \/ EvalU

SpecU == InitU /\ [][NextU]_vars

\* integer-arithmetic runs: one LONG build of an expression over two
\* numbers, two variables and the four arithmetic operators, then one
\* evaluation with an array of two values taken from the ends and the
\* middle of the range of long
PiecesR ==
  {<<"7">>, <<"2">>, <<"$", "1">>, <<"$", "2">>, <<"-">>, <<"+">>, <<"*">>,
   <<"/">>}

ExamplesR ==
  {<<"7", "-", "2", "*", "$", "1">>, <<"$", "1", "/", "$", "2", "-", "7">>}

InitR == InitWith(Exprs(PiecesR, MaxToksR) \cup ExamplesR, {"A"})

BuildLong == ncalls = 0 /\ ast_build("A", input, AST_DTYPE_LONG)

EvalArgsR ==
  {[null |-> FALSE, arr |-> v, size |-> 2] :
     v \in [1..2 -> {LONG_MIN, -1, 0, LONG_MAX}]}

EvalR == ncalls = 1 /\ \E va \in EvalArgsR : ast_eval("A", va, FALSE)

NextR == BuildLong \/ Parse \/ EvalR

SpecR == InitR /\ [][NextR]_vars

\* index-set runs: ast_record_var applied to a fresh handle with one
\* index after another, in any order and with repetitions, until the
\* first error
InitC == InitWith({NULLSTR}, {"A"})

RecordVar ==
  /\ err["A"].errno = 0
  /\ \E idx \in 0..MaxIdx, ok \in BOOLEAN :
       LET r == ast_record_var(ast["A"], err["A"], idx, ok)
       IN  /\ r.realloc \/ ok
           /\ ast' = [ast EXCEPT !["A"] = r.a]
           /\ err' = [err EXCEPT !["A"] = r.e]
  /\ UNCHANGED <<input, hst, heap, allocd, freed, owner, dfree, pc, first,
                 cur, src, last, out, ncalls, crashed>>

SpecC == InitC /\ [][RecordVar]_vars

\* two-handle runs: both handles are live and their calls interleave, one
\* recursion level of a build at a time; each handle is built once
ExprsI == {<<"(", "!", "1", ")">>, <<"1", "+", "(">>}

InitI == InitWith(ExprsI, {"A", "B"})

EvalArgsI == {[null |-> FALSE, arr |-> <<>>, size |-> 0]}

BuildI ==
  \E h \in H, dt \in ast_dtype_t :
    err[h].str = NULLSTR /\ ast_build(h, input, dt)

EvalI == \E h \in H, va \in EvalArgsI : ast_eval(h, va, FALSE)

NextI == BuildI \/ Parse \/ EvalI \/ Destroy

SpecI == InitI /\ [][NextI]_vars

\* example runs: one of two fixed expressions is built and then evaluated
\* with arrays of small whole numbers
ExampleEq == <<"$", "1", "=", "=", "$", "2">>

Example18 ==
  <<"(", "-", "$", "2", " ", "+", " ", "s", "q", "r", "t", "(",
    "$", "{", "2", "}", "^", "2", " ", "-", " ", "4", "*", "$", "1", "*",
    "$", "3", ")", ")", " ", "/", " ", "(", "2", "*", "$", "1", ")">>

EvalArgsS ==
  {[null |-> FALSE, arr |-> v, size |-> Len(v)] :
     v \in {<<1, 6, 5>>} \cup [1..2 -> 0..2]}

InitS == InitWith({ExampleEq, Example18}, {"A"})

EvalS == \E va \in EvalArgsS : ast_eval("A", va, FALSE)

NextS == BuildOnce \/ Parse \/ EvalS

SpecS == InitS /\ [][NextS]_vars

(***************************************************************************)
(* Vocabulary of the properties.                                           *)
(***************************************************************************)
\* this step is the call of ast_build / ast_eval on handle h
BuildStep(h) == ncalls' = ncalls + 1 /\ last'.op = "build" /\ last'.h = h
EvalStep(h) == ncalls' = ncalls + 1 /\ last'.op = "eval" /\ last'.h = h

\* in this step a call of ast_build or ast_eval on handle h returns
Returns(h) ==
  /\ last'.h = h /\ last'.op \in {"build", "eval"} /\ last'.done
  /\ ncalls' = ncalls + 1 \/ ~last.done

\* the expression is null, empty or blank
Blank(s) == s = NULLSTR \/ \A i \in 1..Len(s) : isspace(s[i])

\* the tree below node n as nested tuples <<kind, payload, left, right>>
RECURSIVE TreeOf(_, _, _)
TreeOf(hp, n, fuel) ==
  IF n = NULL THEN <<>>
  ELSE IF fuel = 0 THEN <<"deep">>
  ELSE <<hp[n].type, hp[n].value, TreeOf(hp, hp[n].left, fuel - 1),
         TreeOf(hp, hp[n].right, fuel - 1)>>

Tree(h) == TreeOf(heap, ast[h].ast, MaxNodes + 1)

\* the addresses a post-order traversal from n visits, in order
PostOrder(hp, n) == ast_free(hp, n, MaxNodes + 1)

SeqSet(q) == {q[i] : i \in DOMAIN q}

MaxOf(S) == CHOOSE x \in S : \A y \in S : y <= x

----------------------------------------------------------------------------
(* C1: once the error code of a handle is non-zero it never changes while  *)
(* the handle lives, and every later ast_build or ast_eval returns it.     *)
C1_StickyCode ==
  [][\A h \in H :
       (hst[h] = "live" /\ err[h].errno # 0 /\ hst'[h] = "live") =>
         /\ err'[h].errno = err[h].errno
         /\ Returns(h) => last'.ret = err[h].errno]_vars

(* C2: after ast_destroy no node allocated for the handle is still         *)
(* allocated and none was freed twice, also when the build had failed.     *)
C2_DestroyFreesAll ==
  /\ ~dfree
  /\ \A h \in H : hst[h] = "destroyed" =>
       \A x \in allocd : owner[x] # h

(* C3: ast_eval on a handle whose code is non-zero returns that code,      *)
(* stores nothing through `value` and leaves the tree, the variable-index  *)
(* set and the code as they were, whatever the arguments.                  *)
C3_EvalOnError ==
  [][\A h \in H :
       (EvalStep(h) /\ err[h].errno # 0) =>
         /\ last'.done /\ last'.ret = err[h].errno
         /\ ~out'[h].written
         /\ err'[h] = err[h] /\ ast'[h] = ast[h]
         /\ heap' = heap /\ allocd' = allocd]_vars

C3_Witness ==
  /\ last.op = "eval" /\ last.done /\ last.ret = AST_ERR_EXIST
  /\ ~last.vnull /\ ~last.var.null
  /\ ast[last.h].ast # NULL /\ ast[last.h].nvar <= last.var.size

(* C4: ast_build on a handle whose code is non-zero returns that code and  *)
(* allocates nothing and leaves the AST pointer, the data type, the        *)
(* variable-index set and the recorded expression pointer unchanged.       *)
C4_BuildOnError ==
  [][\A h \in H :
       (BuildStep(h) /\ err[h].errno # 0) =>
         /\ last'.done /\ last'.ret = err[h].errno
         /\ allocd' = allocd /\ ast'[h] = ast[h]
         /\ err'[h].str = err[h].str]_vars

\* the outcome the order of C5 prescribes for the call made in this step
C5_Expected(h) ==
  LET a == ast[h]
      va == last'.var
  IN  IF a.ast = NULL THEN AST_ERR_NOEXP
      ELSE IF va.null /\ va.size > 0 THEN AST_ERR_VAR
      ELSE IF last'.vnull THEN AST_ERR_VALUE
      ELSE IF a.nvar > 0 /\ va.size <= MaxOf(SeqSet(a.vidx)) THEN AST_ERR_SIZE
      ELSE 0

(* C5 as stated: with code 0 on entry ast_eval returns the first that      *)
(* applies of NOEXP (no AST), VAR (null array with a positive length),     *)
(* VALUE (null result pointer), SIZE (a variable is referenced and the     *)
(* length is not above the largest index of the set); otherwise it         *)
(* evaluates, stores the result and returns 0.                             *)
C5_Original ==
  [][\A h \in H :
       (EvalStep(h) /\ err[h].errno = 0) =>
         /\ last'.done /\ last'.ret = C5_Expected(h)
         /\ out'[h].written <=> (C5_Expected(h) = 0)]_vars

(* C5 as amended: the same order of NOEXP, VAR, VALUE and SIZE, none of    *)
(* which stores a result; otherwise, provided the evaluation performs no   *)
(* operation that is undefined in C (integer division by zero, signed      *)
(* overflow, out-of-range conversion), ast_eval stores the result and      *)
(* returns 0.                                                              *)
C5_EvalOrder ==
  [][\A h \in H :
       (EvalStep(h) /\ err[h].errno = 0) =>
         IF C5_Expected(h) # 0
           THEN last'.done /\ last'.ret = C5_Expected(h) /\ ~out'[h].written
           ELSE Evaluate(ast[h], heap, last'.var).st = "ok" =>
                  last'.done /\ last'.ret = 0 /\ out'[h].written]_vars

C5_Witness ==
  /\ last.op = "eval" /\ last.done /\ last.ret = AST_ERR_SIZE
  /\ ~last.var.null /\ last.var.size > 0

(* C6: when ast_eval returns 0 for an array of length n, every var[k] the  *)
(* evaluator read has 0 <= k < n and every element of the variable-index   *)
(* set is below n.                                                         *)
C6_ReadsInBounds ==
  (last.op = "eval" /\ last.done /\ last.ret = 0) =>
     /\ \A k \in last.rd : 0 <= k /\ k < last.var.size
     /\ \A i \in 1..ast[last.h].nvar : ast[last.h].vidx[i] < last.var.size

C6_Witness ==
  /\ last.op = "eval" /\ last.done /\ last.ret = 0
  /\ last.rd = {1} /\ ast[last.h].nvar = 1 /\ last.var.size = 2

(* C7: ast_build on a handle that owns an AST returns EXIST and leaves     *)
(* the tree, the data type and the variable-index set as they were; once   *)
(* a build has ended the handle's expression never changes again.          *)
C7_BuildExist ==
  [][\A h \in H :
       /\ (BuildStep(h) /\ ast[h].ast # NULL) =>
            last'.done /\ last'.ret = AST_ERR_EXIST /\ allocd' = allocd
       /\ (ast[h].ast # NULL /\ pc[h] = "idle") =>
            ast'[h] = ast[h] /\ Tree(h)' = Tree(h)]_vars

C7_Witness ==
  /\ last.op = "build" /\ last.done /\ last.ret = AST_ERR_EXIST
  /\ last.str # NULLSTR /\ ~Blank(last.str)
  /\ ast[last.h].nvar > 0 /\ Len(PostOrder(heap, ast[last.h].ast)) >= 3

\* the call of ast_build made in this step fails with STRING and creates
\* neither a node nor a variable entry
C8_Outcome(h) ==
  /\ last'.done /\ last'.ret = AST_ERR_STRING
  /\ err'[h].errno = AST_ERR_STRING
  /\ allocd' = allocd /\ ast'[h] = ast[h]

(* C8 as stated: ast_build with a null, empty or blank expression returns  *)
(* STRING, sets the code to STRING and creates no node and no variable     *)
(* entry.                                                                  *)
C8_Original ==
  [][\A h \in H : (BuildStep(h) /\ Blank(last'.str)) => C8_Outcome(h)]_vars

(* C8 as amended: on a handle that does not own an AST yet, ast_build      *)
(* with a null, empty or blank expression returns STRING, sets the code    *)
(* to STRING and creates no node and no variable entry.                    *)
C8_BlankString ==
  [][\A h \in H :
       (BuildStep(h) /\ Blank(last'.str) /\ ast[h].ast = NULL) =>
          C8_Outcome(h)]_vars

C8_Witness ==
  /\ last.op = "build" /\ last.done /\ last.ret = AST_ERR_STRING
  /\ last.str # NULLSTR /\ Len(last.str) >= 2
  /\ allocd = {}

\* a call of ast_build on handle h has returned 0 and nothing was called since
Built(h) == last.op = "build" /\ last.h = h /\ last.done /\ last.ret = 0

Nodes(h) == SeqSet(PostOrder(heap, ast[h].ast))

(* C9: after a build that returned 0 the nodes reachable from the root     *)
(* form a tree that a post-order traversal walks visiting every live node  *)
(* of the handle exactly once, and none of them is a PAREN_LEFT, a         *)
(* PAREN_RIGHT or an UNDEF node.                                           *)
C9_FinishedTree ==
  \A h \in H : Built(h) =>
    LET po == PostOrder(heap, ast[h].ast)
    IN  /\ ast[h].ast # NULL
        /\ Cardinality(SeqSet(po)) = Len(po)
        /\ SeqSet(po) = {x \in allocd : owner[x] = h}
        /\ \A x \in SeqSet(po) :
             heap[x].type \notin
               {AST_TOK_PAREN_LEFT, AST_TOK_PAREN_RIGHT, AST_TOK_UNDEF}

C9_Witness ==
  /\ Built("A") /\ freed # {}
  /\ Cardinality(Nodes("A")) >= 3

(* C10: after a build that returned 0 every binary operator node has both  *)
(* children, every unary operator or function node has a left child and    *)
(* no right child, and every NUM or VAR node has no child.                 *)
C10_Arity ==
  \A h \in H : Built(h) =>
    \A x \in Nodes(h) :
      LET ty == ast_tok_attr[heap[x].type].type
      IN  /\ ty = AST_TOKT_BOPT =>
               heap[x].left # NULL /\ heap[x].right # NULL
          /\ ty \in {AST_TOKT_UOPT, AST_TOKT_FUNC} =>
               heap[x].left # NULL /\ heap[x].right = NULL
          /\ ty = AST_TOKT_VALUE =>
               heap[x].left = NULL /\ heap[x].right = NULL

C10_Witness ==
  /\ Built("A")
  /\ \E x, y, z \in Nodes("A") :
       /\ ast_tok_attr[heap[x].type].type = AST_TOKT_BOPT
       /\ ast_tok_attr[heap[y].type].type \in {AST_TOKT_UOPT, AST_TOKT_FUNC}
       /\ ast_tok_attr[heap[z].type].type = AST_TOKT_VALUE

\* the children of node x
Children(hp, x) == {hp[x].left, hp[x].right} \ {NULL}

(* C11: during and after a build, for every node n of the handle and every *)
(* child c of n the parent link of c designates n.                         *)
C11_ParentLinks ==
  \A h \in H : (hst[h] = "live" /\ err[h].errno = 0) =>
    \A n \in {x \in allocd : owner[x] = h} :
      \A c \in Children(heap, n) : heap[c].parent = n

\* the zero-based indices held by the VAR nodes of handle h
VarNodes(h) ==
  {heap[x].value.l :
     x \in {y \in allocd : owner[y] = h /\ heap[y].type = AST_TOK_VAR}}

\* the indices written in expression s, in either form ($d or ${d})
WrittenVars(s) ==
  {DigitVal(s[i + 1]) :
     i \in {j \in 1..(Len(s) - 1) : s[j] = AST_VAR_FLAG /\ isdigit(s[j + 1])}}
  \cup
  {DigitVal(s[i + 2]) :
     i \in {j \in 1..(Len(s) - 2) : s[j] = AST_VAR_FLAG
                                     /\ s[j + 1] = AST_VAR_START}}

(* C12: while a build goes well the variable-index set is strictly         *)
(* ascending, holds exactly the distinct indices of the variables read so  *)
(* far, and its last element is the largest of them; after a build that    *)
(* returned 0 these are the indices written in the expression minus one.   *)
C12_SortedSet ==
  \A h \in H : (hst[h] = "live" /\ err[h].errno = 0) =>
    LET a == ast[h]
    IN  /\ Len(a.vidx) = a.nvar
        /\ \A i \in 1..(a.nvar - 1) : a.vidx[i] < a.vidx[i + 1]
        /\ SeqSet(a.vidx) = VarNodes(h)
        /\ a.nvar = Cardinality(VarNodes(h))
        /\ a.nvar > 0 => a.vidx[a.nvar] = MaxOf(VarNodes(h))
        /\ Built(h) =>
             SeqSet(a.vidx) = {w - 1 : w \in WrittenVars(last.str)}

C12_Witness ==
  /\ Built("A") /\ ast["A"].vidx = <<0, 1, 2>>
  /\ input[2] = "3" /\ Len(input) > 8

\* the token and the precedence the specification gives a written operator
OpToken(o) ==
  CASE o = <<"+">> -> AST_TOK_PLUS   [] o = <<"-">> -> AST_TOK_MINUS
    [] o = <<"*">> -> AST_TOK_MUL    [] o = <<"/">> -> AST_TOK_DIV
    [] o = <<"^">> -> AST_TOK_POW    [] o = <<"&", "&">> -> AST_TOK_AND
    [] o = <<"|", "|">> -> AST_TOK_OR [] o = <<"=", "=">> -> AST_TOK_EQ
    [] o = <<"!", "=">> -> AST_TOK_NEQ [] o = <<">">> -> AST_TOK_GT
    [] o = <<">", "=">> -> AST_TOK_GE [] o = <<"<">> -> AST_TOK_LT
    [] o = <<"<", "=">> -> AST_TOK_LE

OpPrec(o) ==
  CASE OpToken(o) = AST_TOK_OR -> 0
    [] OpToken(o) = AST_TOK_AND -> 1
    [] OpToken(o) \in {AST_TOK_EQ, AST_TOK_NEQ} -> 2
    [] OpToken(o) \in {AST_TOK_LT, AST_TOK_LE, AST_TOK_GT, AST_TOK_GE} -> 3
    [] OpToken(o) \in {AST_TOK_PLUS, AST_TOK_MINUS} -> 4
    [] OpToken(o) \in {AST_TOK_MUL, AST_TOK_DIV} -> 5
    [] OpToken(o) = AST_TOK_POW -> 6

\* how the tree below n groups its leaves, written in prefix order: a leaf
\* is its number (the numbers of the expressions checked are whole and
\* positive), any other node is a 0 followed by its two subtrees
RECURSIVE Grouping(_, _, _, _)
Grouping(hp, n, dt, fuel) ==
  IF n = NULL \/ fuel = 0 THEN <<>>
  ELSE IF hp[n].type = AST_TOK_NUM
    THEN <<IF dt = AST_DTYPE_LONG THEN hp[n].value.l ELSE hp[n].value.d.n>>
  ELSE <<0>> \o Grouping(hp, hp[n].left, dt, fuel - 1)
             \o Grouping(hp, hp[n].right, dt, fuel - 1)

GroupingOf(h) == Grouping(heap, ast[h].ast, ast[h].dtype, MaxNodes + 1)

\* a build of handle h has ended without a failure of the allocator
Ended(h) ==
  /\ last.op = "build" /\ last.h = h /\ last.done
  /\ last.ret # AST_ERR_MEMORY

(* C13: `a op b op c` builds to ((a op b) op c) for every binary operator, *)
(* and so does `a op1 b op2 c` for two operators of equal precedence.      *)
C13_LeftAssoc ==
  \A o1, o2 \in BinOps :
    (last.str = Triple(o1, o2) /\ Ended("A") /\ OpPrec(o1) = OpPrec(o2)) =>
       /\ last.ret = 0
       /\ GroupingOf("A") = <<0, 0, 2, 3, 4>>

(* C14: for operators lo and hi with precedence(lo) < precedence(hi),      *)
(* `a lo b hi c` builds to lo(a, hi(b, c)) and `a hi b lo c` builds to     *)
(* lo(hi(a, b), c); as LONG `2+3*4` evaluates to 14.                       *)
C14_Precedence ==
  \A o1, o2 \in BinOps :
    (last.str = Triple(o1, o2) /\ Ended("A")) =>
       /\ OpPrec(o1) < OpPrec(o2) =>
            /\ last.ret = 0
            /\ GroupingOf("A") = <<0, 2, 0, 3, 4>>
       /\ OpPrec(o1) > OpPrec(o2) =>
            /\ last.ret = 0
            /\ GroupingOf("A") = <<0, 0, 2, 3, 4>>
       /\ (o1 = <<"+">> /\ o2 = <<"*">> /\ ast["A"].dtype = AST_DTYPE_LONG) =>
            Evaluate(ast["A"], heap, [null |-> FALSE, arr |-> <<>>, size |-> 0])
              = [v |-> Value(14, DInt(0)), err |-> FALSE, st |-> "ok", rd |-> {}]

\* handle B has finished building `(E)` for the E handle A built without
\* error, and the allocator did not fail
BothBuilt ==
  /\ last.op = "build" /\ last.h = "B" /\ last.done
  /\ last.str = <<"(">> \o input \o <<")">>
  /\ err["A"].errno = 0 /\ ast["A"].ast # NULL
  /\ last.ret # AST_ERR_MEMORY

NoVars == [null |-> FALSE, arr |-> <<>>, size |-> 0]

(* C15: when E builds, `(E)` builds the same tree and the same variable    *)
(* set as E; `(2+3)*4` builds MUL(PLUS(2, 3), 4) and evaluates to 20.       *)
C15_ParenSame ==
  /\ BothBuilt =>
       /\ last.ret = 0
       /\ Tree("B") = Tree("A")
       /\ ast["B"].vidx = ast["A"].vidx /\ ast["B"].nvar = ast["A"].nvar
  /\ (input = Example15 /\ hst["A"] = "live" /\ pc["A"] = "idle"
      /\ err["A"].errno = 0 /\ ast["A"].ast # NULL) =>
       /\ heap[ast["A"].ast].type = AST_TOK_MUL
       /\ heap[heap[ast["A"].ast].left].type = AST_TOK_PLUS
       /\ GroupingOf("A") = <<0, 0, 2, 3, 4>>
       /\ LET r == Evaluate(ast["A"], heap, NoVars)
          IN  /\ ~r.err /\ r.st = "ok"
              /\ IF ast["A"].dtype = AST_DTYPE_LONG THEN r.v.l = 20
                 ELSE r.v.d = DInt(20)

C15_Witness ==
  /\ BothBuilt /\ last.ret = 0
  /\ input = <<"(", "$", "1", ")">>
  /\ ast["B"].vidx = <<0>> /\ heap[ast["B"].ast].type = AST_TOK_VAR

\* the last call was an ast_eval of handle h that returned 0 and wrote a
\* result computed without undefined behaviour
Evaluated(h) ==
  /\ last.op = "eval" /\ last.h = h /\ last.done /\ last.ret = 0
  /\ out[h].written /\ ~out[h].ub

\* the number k as the result of an evaluation with data type dt
Result(dt, k) ==
  IF dt = AST_DTYPE_LONG THEN Value(k, DInt(0)) ELSE Value(0, DInt(k))

(* C16: `==` is tokenized as EQ, and `a == b` evaluates to 1 when a equals *)
(* b and to 0 otherwise.                                                   *)
C16_Equality ==
  /\ (Built("A") /\ last.str = ExampleEq) =>
       heap[ast["A"].ast].type = AST_TOK_EQ
  /\ (Evaluated("A") /\ err["A"].str = ExampleEq) =>
       out["A"].v = Result(ast["A"].dtype,
                           IF last.var.arr[1] = last.var.arr[2] THEN 1 ELSE 0)

\* a leaf of the expected tree: the variable with index i, the number k
VarLeaf(i) == <<AST_TOK_VAR, Value(i, DInt(0)), <<>>, <<>>>>
NumLeaf(dt, k) == <<AST_TOK_NUM, Result(dt, k), <<>>, <<>>>>
Op1(tok, x) == <<tok, ZeroValue, x, <<>>>>
Op2(tok, x, y) == <<tok, ZeroValue, x, y>>

\* DIV(PLUS(NEG(VAR 1), SQRT(MINUS(POW(VAR 1, 2), MUL(MUL(4, VAR 0), VAR 2)))),
\*     MUL(2, VAR 0))
Tree18(dt) ==
  Op2(AST_TOK_DIV,
      Op2(AST_TOK_PLUS,
          Op1(AST_TOK_NEG, VarLeaf(1)),
          Op1(AST_TOK_SQRT,
              Op2(AST_TOK_MINUS,
                  Op2(AST_TOK_POW, VarLeaf(1), NumLeaf(dt, 2)),
                  Op2(AST_TOK_MUL,
                      Op2(AST_TOK_MUL, NumLeaf(dt, 4), VarLeaf(0)),
                      VarLeaf(2))))),
      Op2(AST_TOK_MUL, NumLeaf(dt, 2), VarLeaf(0)))

(* C18: `(-$2 + sqrt(${2}^2 - 4*$1*$3)) / (2*$1)` builds, unless the       *)
(* allocator fails, with the variable-index set {0,1,2} and the tree       *)
(* DIV(PLUS(NEG(VAR 1), SQRT(MINUS(POW(VAR 1, 2), MUL(MUL(4, VAR 0),       *)
(* VAR 2)))), MUL(2, VAR 0)); its evaluation with [1, 6, 5] yields -1.     *)
C18_Quadratic ==
  /\ []((Ended("A") /\ last.str = Example18) =>
          /\ last.ret = 0
          /\ ast["A"].vidx = <<0, 1, 2>> /\ ast["A"].nvar = 3
          /\ Tree("A") = Tree18(ast["A"].dtype))
  /\ [][(EvalStep("A") /\ err["A"].errno = 0
         /\ Tree("A") = Tree18(ast["A"].dtype)
         /\ last'.var.arr = <<1, 6, 5>>) =>
          /\ last'.done /\ last'.ret = 0
          /\ out'["A"] = Written(Result(ast["A"].dtype, -1))]_vars

C18_Witness ==
  /\ Evaluated("A") /\ err["A"].str = Example18
  /\ last.var.arr = <<1, 6, 5>> /\ ast["A"].dtype = AST_DTYPE_DOUBLE
  /\ out["A"].v.d = DInt(-1)

\* in this step ast_parse_token reads `-` for handle h
MinusStep(h) ==
  /\ pc[h] = "parse"
  /\ CharAt(err[h].str, ast_skip_space(err[h].str, src[h])) = "-"
  /\ <<err'[h], pc'[h], cur'[h], src'[h]>> # <<err[h], pc[h], cur[h], src[h]>>

\* the current node of handle h has as many children as its token takes
Full(h) == Filled(heap, cur[h]) >= ast_tok_attr[heap[cur[h]].type].argc

\* the step inserts token tok and the parser goes on with the node that
\* holds it, unless the allocator fails
Emits(h, tok) ==
  \/ err'[h].errno = AST_ERR_MEMORY
  \/ /\ err'[h].errno = 0 /\ pc'[h] = "parse"
     /\ heap'[cur'[h]].type = tok

(* C17 as stated: reading `-`, the tokenizer emits NEG when the current    *)
(* node has received its full arity and MINUS otherwise.                   *)
C17_Original ==
  [][\A h \in H : MinusStep(h) =>
       Emits(h, IF Full(h) THEN AST_TOK_NEG ELSE AST_TOK_MINUS)]_vars

(* C17 as amended: reading `-`, the tokenizer emits MINUS when the current *)
(* node has received its full arity and NEG otherwise, and the token is    *)
(* accepted in either case.                                                *)
C17_MinusWhenFull ==
  [][\A h \in H : MinusStep(h) =>
       Emits(h, IF Full(h) THEN AST_TOK_MINUS ELSE AST_TOK_NEG)]_vars

C17_Witness ==
  /\ Built("A") /\ last.str = <<"-", "1", "-", "1">>
  /\ heap[ast["A"].ast].type = AST_TOK_MINUS
  /\ heap[heap[ast["A"].ast].left].type = AST_TOK_NEG

\* in this step ast_eval on handle h returns 0
EvalOk(h) == EvalStep(h) /\ last'.done /\ last'.ret = 0

\* in this step ast_eval is called on handle h with the arguments of the
\* call before it, an ast_eval on h that returned 0
EvalAgain(h) ==
  /\ EvalStep(h)
  /\ last.op = "eval" /\ last.h = h /\ last.done /\ last.ret = 0
  /\ last'.var = last.var /\ last'.vnull = last.vnull

\* a successful eval leaves the tree, the variable-index set, the data type
\* and the code 0 of the handle as they were
HandleKept(h) ==
  /\ ast'[h] = ast[h] /\ heap' = heap /\ allocd' = allocd
  /\ err[h].errno = 0 /\ err'[h] = err[h]

EndStep(h) ==
  /\ pc[h] = "parse" /\ pc'[h] = "idle"
  /\ CharAt(err[h].str, ast_skip_space(err[h].str, src[h])) = NUL

\* a proper ancestor of the current node is a left parenthesis or a function
Unclosed(h) == ScopeWalk(heap, cur[h]) # NULL

\* the build fails in this step with a token error and message msg
FailsWith(h, msg) ==
  /\ last'.done /\ last'.ret = AST_ERR_TOKEN
  /\ err'[h].errno = AST_ERR_TOKEN /\ err'[h].msg = msg

(* C20 as stated: at the end of the input a current node that is not full  *)
(* makes the build fail with "incomplete expression", an unmatched opening *)
(* above it makes the build fail with "unclosed parenthesis", and the      *)
(* build returns 0 only when neither is the case.                          *)
C20_Original ==
  [][\A h \in H : EndStep(h) =>
       /\ ~Full(h) => FailsWith(h, "incomplete expression")
       /\ Unclosed(h) => FailsWith(h, "unclosed parenthesis")
       /\ last'.ret = 0 => Full(h) /\ ~Unclosed(h)]_vars

(* C20 as amended: at the end of the input an unmatched opening above the  *)
(* current node makes the build fail with "unclosed parenthesis", whether  *)
(* the node is full or not; otherwise a current node that is not full      *)
(* makes it fail with "incomplete expression"; the build returns 0 exactly *)
(* when the node is full and no opening is unmatched.                      *)
C20_EndOfInput ==
  [][\A h \in H : EndStep(h) =>
       /\ Unclosed(h) => FailsWith(h, "unclosed parenthesis")
       /\ (~Full(h) /\ ~Unclosed(h)) => FailsWith(h, "incomplete expression")
       /\ last'.done /\ (last'.ret = 0 <=> Full(h) /\ ~Unclosed(h))]_vars

C20_Witness ==
  /\ last.op = "build" /\ last.done /\ last.ret = AST_ERR_TOKEN
  /\ last.str = <<"(", "1", "*">>
  /\ err["A"].msg = "unclosed parenthesis" /\ err["A"].eptr = 4

\* in this step ast_parse_token reads a token that begins with ch for
\* handle h
ReadStep(h, ch) ==
  /\ pc[h] = "parse"
  /\ CharAt(err[h].str, ast_skip_space(err[h].str, src[h])) = ch
  /\ <<err'[h], pc'[h], cur'[h], src'[h]>> # <<err[h], pc[h], cur[h], src[h]>>

\* the number of characters ch among the first n of s
RECURSIVE CountIn(_, _, _)
CountIn(s, ch, n) ==
  IF n = 0 THEN 0
  ELSE CountIn(s, ch, n - 1) + (IF s[n] = ch THEN 1 ELSE 0)

\* every `)` of s has an opening of its own before it
Matched(s) ==
  \A n \in 1..Len(s) : CountIn(s, ")", n) <= CountIn(s, "(", n)

(* C21: a `)` read when the current node is not a PAREN_LEFT and no        *)
(* ancestor is an opening fails with "unbalanced parenthesis"; a `)` read  *)
(* when the current node is a childless PAREN_LEFT fails with "empty       *)
(* parenthesis"; in a successfully built expression every `)` matches an   *)
(* earlier opening.                                                        *)
C21_RightParen ==
  /\ [](\A h \in H : Built(h) => Matched(last.str))
  /\ [][\A h \in H : ReadStep(h, ")") =>
          /\ (heap[cur[h]].type # AST_TOK_PAREN_LEFT /\ ~Unclosed(h)) =>
               FailsWith(h, "unbalanced parenthesis")
          /\ (heap[cur[h]].type = AST_TOK_PAREN_LEFT
              /\ Filled(heap, cur[h]) = 0) =>
               FailsWith(h, "empty parenthesis")
          /\ err'[h].errno = 0 =>
               heap[cur[h]].type # AST_TOK_PAREN_LEFT /\ Unclosed(h)]_vars

C21_Witness ==
  /\ last.op = "build" /\ last.done /\ last.ret = AST_ERR_TOKEN
  /\ last.str = <<"(", "1", ")", ")">>
  /\ err["A"].msg = "unbalanced parenthesis" /\ err["A"].eptr = 4

\* the token ast_parse_token finds next for handle h
TokenRead(h) ==
  Tokenize(err[h].str, ast_skip_space(err[h].str, src[h]), ast[h].dtype,
           Full(h)).tok

\* in this step ast_parse_token looks at the next token of handle h
TokenStep(h) ==
  /\ pc[h] = "parse"
  /\ CharAt(err[h].str, ast_skip_space(err[h].str, src[h])) # NUL
  /\ <<err'[h], pc'[h], cur'[h], src'[h]>> # <<err[h], pc[h], cur[h], src[h]>>

\* the step rejects the token with message msg and inserts no node
Rejects(h, msg) ==
  /\ FailsWith(h, msg)
  /\ heap' = heap /\ allocd' = allocd /\ freed' = freed

(* C22: when the current node is full, a NUM, VAR, `(`, unary-operator or  *)
(* function token fails with "missing operator"; when it is not full, a    *)
(* binary-operator token fails with "missing value"; no node is inserted   *)
(* for the rejected token.                                                 *)
C22_TokenOrder ==
  [][\A h \in H : TokenStep(h) =>
       /\ (Full(h) /\ (TokenRead(h) = AST_TOK_PAREN_LEFT
                       \/ ast_tok_attr[TokenRead(h)].type \in
                            {AST_TOKT_VALUE, AST_TOKT_UOPT, AST_TOKT_FUNC})) =>
            Rejects(h, "missing operator")
       /\ (~Full(h) /\ ast_tok_attr[TokenRead(h)].type = AST_TOKT_BOPT) =>
            Rejects(h, "missing value")]_vars

C22_Witness ==
  /\ last.op = "build" /\ last.done /\ last.ret = AST_ERR_TOKEN
  /\ last.str = <<"1", "+", "+", "1">>
  /\ err["A"].msg = "missing value" /\ err["A"].eptr = 3
  /\ Cardinality(allocd) = 2

\* the build of handle A ended, without a failure of the allocator, with a
\* tree that is the one VAR node of payload p, recorded in the index set
BuildsVar(p) ==
  /\ last.ret = 0
  /\ Tree("A") = VarLeaf(p)
  /\ ast["A"].vidx = <<p>> /\ ast["A"].nvar = 1

\* an ast_eval of a tree that is one VAR node, with an array long enough,
\* returns the element of the array at the payload of the node
EvalReadsVar(h) ==
  (/\ EvalStep(h) /\ err[h].errno = 0 /\ ast[h].ast # NULL
   /\ heap[ast[h].ast].type = AST_TOK_VAR
   /\ last'.var.size > heap[ast[h].ast].value.l) =>
     /\ last'.done /\ last'.ret = 0
     /\ out'[h] = Written(Result(ast[h].dtype,
                                 last'.var.arr[heap[ast[h].ast].value.l + 1]))

\* what C23 says of the build of the references `${N}` with N in the set S,
\* of `$1` to `$9` and of the `$` that begin no reference
BuildsRefs(S) ==
  Ended("A") =>
    /\ \A d \in 1..9 : last.str = VarD(d) => BuildsVar(d - 1)
    /\ \A n \in S : last.str = VarN(Digits(n)) => BuildsVar(n - 1)
    /\ last.str \in BadRefs => last.ret = AST_ERR_TOKEN

(* C23 as stated: `$d` with d in 1..9 builds a VAR node with payload d-1   *)
(* and `${N}` with N >= 1 a VAR node with payload N-1, whose evaluation    *)
(* returns variables[payload]; `$0`, `${0}`, `${}` and a `$` followed by   *)
(* anything else fail with a TOKEN error.                                  *)
C23_Original ==
  /\ []BuildsRefs(IndicesW \ {0})
  /\ [][\A h \in H : EvalReadsVar(h)]_vars

(* C23 as amended: as C23, for `${N}` with N from 1 to the largest long    *)
(* integer; a larger N fails with a TOKEN error.                           *)
C23_VarRefs ==
  /\ []BuildsRefs({n \in IndicesW : 1 <= n /\ n <= LONG_MAX})
  /\ [](Ended("A") =>
          \A n \in {m \in IndicesW : m > LONG_MAX} :
             last.str = VarN(Digits(n)) => last.ret = AST_ERR_TOKEN)
  /\ [][\A h \in H : EvalReadsVar(h)]_vars

C23_Witness ==
  /\ Evaluated("A") /\ err["A"].str = VarN(Digits(12))
  /\ heap[ast["A"].ast].value.l = 11
  /\ last.var.size = 12 /\ last.rd = {11}
  /\ out["A"].v = Result(ast["A"].dtype, 0)

\* the operand v of data type dt is not zero, is not a number
NonZero(dt, v) ==
  IF dt = AST_DTYPE_LONG THEN v.l # 0 ELSE ~(v.d.k = "fin" /\ v.d.n = 0)

IsNaN(dt, v) == dt = AST_DTYPE_DOUBLE /\ v.d.k = "nan"

\* the ordinary order and equality of two operands that are numbers
Less(dt, a, b) ==
  IF dt = AST_DTYPE_LONG THEN a.l < b.l
  ELSE IF a.d.k = "inf" THEN a.d.n < 0 /\ ~(b.d.k = "inf" /\ b.d.n < 0)
  ELSE IF b.d.k = "inf" THEN b.d.n > 0
  ELSE a.d.n * b.d.d < b.d.n * a.d.d

Same(dt, a, b) == ~Less(dt, a, b) /\ ~Less(dt, b, a)

\* what C24 says a node of the kind holds for the operands a and b (b is
\* ignored by NOT); no comparison but NEQ holds of an operand that is not a
\* number
Holds(kind, dt, a, b) ==
  LET nan == IsNaN(dt, a) \/ IsNaN(dt, b)
  IN  CASE kind = AST_TOK_AND -> NonZero(dt, a) /\ NonZero(dt, b)
        [] kind = AST_TOK_OR -> NonZero(dt, a) \/ NonZero(dt, b)
        [] kind = AST_TOK_NOT -> ~NonZero(dt, a)
        [] kind = AST_TOK_EQ -> ~nan /\ Same(dt, a, b)
        [] kind = AST_TOK_NEQ -> nan \/ ~Same(dt, a, b)
        [] kind = AST_TOK_LT -> ~nan /\ Less(dt, a, b)
        [] kind = AST_TOK_LE -> ~nan /\ ~Less(dt, b, a)
        [] kind = AST_TOK_GT -> ~nan /\ Less(dt, b, a)
        [] kind = AST_TOK_GE -> ~nan /\ ~Less(dt, a, b)

\* the operands of the root of handle h when they are NUM leaves
Operand1(h) == heap[heap[ast[h].ast].left].value
Operand2(h) ==
  IF heap[ast[h].ast].right = NULL THEN ZeroValue
  ELSE heap[heap[ast[h].ast].right].value

(* C24: an AND, OR, NOT, EQ, NEQ, LT, LE, GT or GE node evaluates to 1     *)
(* when what the kind stands for holds of its operands and to 0 when it    *)
(* does not; `$1 >= $2 && $2 != 0` evaluates to 1 for [3, 1], and to 1     *)
(* exactly when the first element is not below the second and the second   *)
(* is not 0.                                                               *)
C24_Logic ==
  [][\A h \in H : (EvalStep(h) /\ err[h].errno = 0 /\ ast[h].ast # NULL) =>
       /\ err[h].str = NULLSTR =>
            /\ last'.done /\ last'.ret = 0
            /\ out'[h] = Written(Result(ast[h].dtype,
                 IF Holds(heap[ast[h].ast].type, ast[h].dtype,
                          Operand1(h), Operand2(h)) THEN 1 ELSE 0))
       /\ (err[h].str = Example24 /\ last'.var.size = 2) =>
            /\ last'.done /\ last'.ret = 0
            /\ out'[h] = Written(Result(ast[h].dtype,
                 IF last'.var.arr[1] >= last'.var.arr[2]
                    /\ last'.var.arr[2] # 0 THEN 1 ELSE 0))]_vars

C24_Witness ==
  /\ Evaluated("A") /\ err["A"].str = Example24
  /\ last.var.arr = <<3, 1>> /\ ast["A"].dtype = AST_DTYPE_DOUBLE
  /\ out["A"].v.d = DInt(1)

\* the token kinds the evaluators have a case for
Evaluable == {AST_TOK_NUM, AST_TOK_VAR} \cup UnaryToks \cup BinaryToks

(* C25: ast_eval never returns EVAL for a handle whose build returned 0:   *)
(* every node of a finished tree is of a kind the evaluator has a case     *)
(* for, and for every variable array that passes the argument checks the   *)
(* evaluator leaves its error flag clear.                                  *)
C25_NoEvalError ==
  \A h \in H :
    /\ err[h].errno # AST_ERR_EVAL
    /\ (last.op = "eval" /\ last.h = h) => last.ret # AST_ERR_EVAL
    /\ (hst[h] = "live" /\ pc[h] = "idle" /\ err[h].errno = 0
        /\ ast[h].ast # NULL) =>
         /\ \A n \in Nodes(h) : heap[n].type \in Evaluable
         /\ \A va \in EvalArgsE :
              EvalCheck(err[h], ast[h], va, FALSE) = 0 =>
                ~Evaluate(ast[h], heap, va).err

C25_Witness ==
  /\ Evaluated("A") /\ err["A"].str = <<"-", "l", "n", "(", "1", ")">>
  /\ ast["A"].dtype = AST_DTYPE_LONG /\ out["A"].v.l = 0

(***************************************************************************)
(* Two handles.                                                            *)
(***************************************************************************)
\* the nodes a handle holds
Own(h) == {x \in allocd : owner[x] = h}

\* the memory as the handle would find it with no other handle around:
\* every block that is not one of its own nodes is blank
Alone(h) ==
  [x \in Addr |-> IF x \in Own(h) THEN heap[x]
                  ELSE ast_node_t(AST_TOK_UNDEF, ZeroValue)]

\* a call, or a recursion level of a build, made on handle h
StepOf(h) ==
  \/ ParseToken(h)
  \/ \E dt \in ast_dtype_t : err[h].str = NULLSTR /\ ast_build(h, input, dt)
  \/ \E va \in EvalArgsI : ast_eval(h, va, FALSE)
  \/ ast_destroy(h)

\* the step leaves everything of handle h as it was
Kept(h) ==
  /\ hst'[h] = hst[h] /\ err'[h] = err[h] /\ ast'[h] = ast[h]
  /\ out'[h] = out[h] /\ pc'[h] = pc[h] /\ first'[h] = first[h]
  /\ cur'[h] = cur[h] /\ src'[h] = src[h]
  /\ Own(h)' = Own(h)
  /\ \A x \in Own(h) : heap'[x] = heap[x]

\* two outcomes of a recursion level agree on everything of handle h
SameParse(h, r, s) ==
  /\ r.e = s.e /\ r.a = s.a /\ r.node = s.node /\ r.c = s.c
  /\ r.done = s.done /\ r.alloc = s.alloc /\ r.free = s.free
  /\ r.mcall = s.mcall /\ r.rcall = s.rcall
  /\ r.free \in Own(h) \cup {NULL}
  /\ \A x \in (Own(h) \cup {r.alloc}) \ {NULL} : r.hp[x] = s.hp[x]
  /\ ast_root(r.hp, first[h]) = ast_root(s.hp, first[h])
  /\ ast_root(r.hp, first[h]) \in Own(h) \cup {r.alloc}

\* what handle h does next does not depend on the other handle
AloneSame(h) ==
  /\ pc[h] = "parse" =>
       \A new \in MallocRet, ok \in BOOLEAN :
         SameParse(h,
           ast_parse_token(err[h], ast[h], heap, cur[h], src[h], new, ok),
           ast_parse_token(err[h], ast[h], Alone(h), cur[h], src[h], new, ok))
  /\ (hst[h] = "live" /\ pc[h] = "idle") =>
       /\ \A va \in EvalArgsI :
            EvalCheck(err[h], ast[h], va, FALSE) = 0 =>
              Evaluate(ast[h], heap, va) = Evaluate(ast[h], Alone(h), va)
       /\ ast_free(heap, ast[h].ast, MaxNodes + 1)
            = ast_free(Alone(h), ast[h].ast, MaxNodes + 1)
       /\ SeqSet(ast_free(heap, ast[h].ast, MaxNodes + 1)) \subseteq Own(h)

\* C26: calls on two distinct handles are independent: in every
\* interleaving of builds, evaluations and destructions on the two handles,
\* what a call on one handle returns, stores and leaves behind is what it
\* would be with the other handle absent (it reads and releases only the
\* handle's own nodes), and no step made on one handle changes the other
\* handle's state, error record, tree, variable-index set, data type or
\* stored result.
C26_Independent ==
  /\ [](\A h \in H : AloneSame(h))
  /\ [][\A h \in H : \A g \in H \ {h} : StepOf(g) => Kept(h)]_vars

\* the first handle has built `(!1)`, and the node released by its splice,
\* to which its leaf still points as parent, has been handed out to the
\* other handle, whose build is still running
C26_Witness ==
  /\ pc["A"] = "idle" /\ err["A"].errno = 0 /\ ast["A"].ast # NULL
  /\ err["A"].str = <<"(", "!", "1", ")">>
  /\ pc["B"] = "parse"
  /\ \E x \in Own("A") : heap[x].parent \in Own("B")

(***************************************************************************)
(* The root.                                                               *)
(***************************************************************************)
\* the nodes without parent met when following parent links from node n
\* for at most as many levels as there are addresses
RootsFrom(n) == {x \in RootWalk(heap, n, MaxNodes) : heap[x].parent = NULL}

\* r is the root of a tree made of exactly the live nodes of handle h
SpansAll(h, r) ==
  LET po == PostOrder(heap, r)
  IN  /\ Cardinality(SeqSet(po)) = Len(po)
      /\ SeqSet(po) = Own(h)

\* C27: at every step of a build, following parent links from the current
\* node stays among the handle's live nodes and ends, without cycle, at a
\* node without parent from which every live node of the handle is reached
\* exactly once through left/right links; and when the build returns 0 the
\* handle's AST pointer is that root: a node without parent, found by the
\* parent walk from the first node created.
C27_SingleRoot ==
  \A h \in H :
    /\ (hst[h] = "live" /\ pc[h] = "parse") =>
         /\ RootWalk(heap, cur[h], MaxNodes) \subseteq Own(h)
         /\ Cardinality(RootsFrom(cur[h])) = 1
         /\ \A r \in RootsFrom(cur[h]) :
              SpansAll(h, r) /\ RootsFrom(first[h]) = {r}
    /\ Built(h) =>
         /\ RootsFrom(first[h]) = {ast[h].ast}
         /\ heap[ast[h].ast].parent = NULL
         /\ SpansAll(h, ast[h].ast)

\* `(1)*1` has been built: the first node created, once the parenthesis
\* and now the number it held, is the left child of the root, and the
\* block released by the splice was handed out again for the root
C27_Witness ==
  /\ Built("A") /\ err["A"].str = <<"(", "1", ")", "*", "1">>
  /\ ast["A"].ast # first["A"]
  /\ heap[ast["A"].ast].type = AST_TOK_MUL
  /\ heap[ast["A"].ast].left = first["A"]
  /\ freed = {} /\ dfree = FALSE

(***************************************************************************)
(* The splice.                                                             *)
(***************************************************************************)
\* in this step handle h reads a `)` whose nearest opening above the
\* current node is a PAREN_LEFT node
SpliceStep(h) ==
  /\ ReadStep(h, ")")
  /\ heap[cur[h]].type # AST_TOK_PAREN_LEFT
  /\ Unclosed(h)
  /\ heap[ScopeWalk(heap, cur[h])].type = AST_TOK_PAREN_LEFT

\* the side of node x under its parent: 0 for a root
SideOf(hp, x) ==
  IF hp[x].parent = NULL THEN 0
  ELSE IF hp[hp[x].parent].left = x THEN 1
  ELSE IF hp[hp[x].parent].right = x THEN 2
  ELSE 3

\* what the step does to the PAREN_LEFT node p and its child c
Spliced(h, p, c) ==
  /\ c # NULL /\ heap[p].right = NULL
  /\ heap'[p].parent = heap[p].parent
  /\ SideOf(heap', p) = SideOf(heap, p) /\ SideOf(heap, p) \in 0..2
  /\ heap'[p].type = heap[c].type /\ heap'[p].value = heap[c].value
  /\ heap'[p].left = heap[c].left /\ heap'[p].right = heap[c].right
  /\ allocd' = allocd \ {c} /\ freed' = freed \cup {c} /\ c \in allocd
  /\ ~dfree'
  /\ \A x \in Own(h) \ {p, c} :
       heap'[x].left = heap[x].left /\ heap'[x].right = heap[x].right
  /\ pc'[h] = "parse" => cur'[h] = p

\* C28: when a `)` matches a PAREN_LEFT node P with single child C, P
\* keeps its parent and its side under that parent, P takes C's token kind,
\* payload, left and right children, exactly one node, C, is released, no
\* other node's left/right links change, and the current node becomes P.
C28_Splice ==
  [][\A h \in H : SpliceStep(h) =>
       Spliced(h, ScopeWalk(heap, cur[h]),
               heap[ScopeWalk(heap, cur[h])].left)]_vars

\* `(1*1)` has just been closed: the first node, once the parenthesis, is
\* the product with both operands, and one block has been released
C28_Witness ==
  /\ pc["A"] = "parse" /\ err["A"].str = <<"(", "1", "*", "1", ")">>
  /\ src["A"] = 6 /\ cur["A"] = first["A"]
  /\ heap[cur["A"]].type = AST_TOK_MUL
  /\ heap[cur["A"]].left # NULL /\ heap[cur["A"]].right # NULL
  /\ Cardinality(freed) = 1 /\ Cardinality(allocd) = 3

(***************************************************************************)
(* Scopes.                                                                 *)
(***************************************************************************)
\* node x holds an opening: a left parenthesis or a function
Opening(hp, x) ==
  \/ hp[x].type = AST_TOK_PAREN_LEFT
  \/ ast_tok_attr[hp[x].type].type = AST_TOKT_FUNC

\* the nodes of handle h that have x below them through left/right links,
\* x included
AncSelf(hp, h, x) ==
  {y \in Own(h) \cup {x} : x \in SeqSet(PostOrder(hp, y))}

\* the openings on the parent walk from the current node, the current node
\* included unless it is a function that has received its argument
OpenScopes(h) ==
  {x \in RootWalk(heap, cur[h], MaxNodes) :
     /\ Opening(heap, x)
     /\ ~(x = cur[h] /\ Filled(heap, x) >= 1)}

\* how many openings, less how many `)`, lie before the pending token
OpenCount(h) ==
  CountIn(err[h].str, "(", src[h] - 1) - CountIn(err[h].str, ")", src[h] - 1)

\* the step reads a token for handle h and the parse goes on
GoesOn(h) == TokenStep(h) /\ pc'[h] = "parse" /\ err'[h].errno = 0

\* the step inserts a binary operator below the innermost open scope
BelowScope(h) ==
  LET s == ScopeWalk(heap, cur[h])
  IN  s # NULL =>
        /\ Opening(heap', s)
        /\ s \in AncSelf(heap', h, cur'[h]) \ {cur'[h]}
        /\ cur'[h] \notin AncSelf(heap', h, s)
        /\ ScopeWalk(heap', cur'[h]) = s

\* C29: at every step of a build the openings on the path from the current
\* node to the root (a function that has just been closed apart) are as
\* many as the openings read so far less the `)` read so far, and they are
\* the left/right ancestors of the current node that hold an opening; a
\* binary operator read inside an open scope is inserted below that
\* scope's node and is not its ancestor; a `)` makes the node it closes the
\* current node, full and no longer a left parenthesis; and a current node
\* that is full, as every closed function and spliced group is, is never
\* above a later current node: the path to the root only loses nodes or
\* gains the node just inserted.
C29_Scopes ==
  /\ [](\A h \in H : (hst[h] = "live" /\ pc[h] = "parse") =>
          /\ Cardinality(OpenScopes(h)) = OpenCount(h)
          /\ OpenScopes(h) \ {cur[h]}
               = {x \in AncSelf(heap, h, cur[h]) \ {cur[h]} : Opening(heap, x)})
  /\ [][\A h \in H : GoesOn(h) =>
          /\ ast_tok_attr[TokenRead(h)].type = AST_TOKT_BOPT => BelowScope(h)
          /\ TokenRead(h) = AST_TOK_PAREN_RIGHT =>
               /\ cur'[h] = ScopeWalk(heap, cur[h])
               /\ Filled(heap', cur'[h])
                    >= ast_tok_attr[heap'[cur'[h]].type].argc
               /\ heap'[cur'[h]].type # AST_TOK_PAREN_LEFT
          /\ Full(h) => cur[h] \notin AncSelf(heap', h, cur'[h])
          /\ AncSelf(heap', h, cur'[h])
               \subseteq AncSelf(heap, h, cur[h]) \cup (allocd' \ allocd)]_vars

\* in `(-1*1` the product has just been read: it went between the left
\* parenthesis and the negation, and the parenthesis is the one open scope
C29_Witness ==
  /\ pc["A"] = "parse" /\ err["A"].str = <<"(", "-", "1", "*", "1">>
  /\ src["A"] = 5 /\ heap[cur["A"]].type = AST_TOK_MUL
  /\ heap[cur["A"]].parent = first["A"]
  /\ heap[first["A"]].type = AST_TOK_PAREN_LEFT
  /\ heap[first["A"]].left = cur["A"]
  /\ heap[heap[cur["A"]].left].type = AST_TOK_NEG
  /\ OpenScopes("A") = {first["A"]}

(***************************************************************************)
(* Closing order.                                                          *)
(***************************************************************************)
\* the position of the opening that the `)` at p closes when openings are
\* closed last-opened first: scanning s backwards from i with depth `)`
\* still to be paired; 0 when there is none
RECURSIVE MatchBack(_, _, _)
MatchBack(s, i, depth) ==
  IF i = 0 THEN 0
  ELSE IF s[i] = ")" THEN MatchBack(s, i - 1, depth + 1)
  ELSE IF s[i] = "(" THEN
         IF depth = 0 THEN i ELSE MatchBack(s, i - 1, depth - 1)
  ELSE MatchBack(s, i - 1, depth)

\* the token of the opening whose `(` is at position q of s
OpeningAt(s, q) ==
  IF q > 1 /\ s[q - 1] = "t" THEN AST_TOK_SQRT
  ELSE IF q > 1 /\ s[q - 1] = "n" THEN AST_TOK_LN
  ELSE IF q > 1 /\ s[q - 1] = "g" THEN AST_TOK_LOG
  ELSE AST_TOK_PAREN_LEFT

\* the token of the opening that the `)` pending for handle h closes
Closes(h) ==
  OpeningAt(err[h].str,
            MatchBack(err[h].str, ast_skip_space(err[h].str, src[h]) - 1, 0))

\* the openings on the parent walk strictly above node x
ScopesAbove(hp, x) ==
  {y \in RootWalk(hp, x, MaxNodes) \ {x} : Opening(hp, y)}

\* the step leaves the closed function node m in the tree, as it was, as a
\* unary node above the subtree that held the current node
FunctionKept(h, m) ==
  /\ heap' = heap /\ allocd' = allocd /\ freed' = freed
  /\ ast_tok_attr[heap[m].type].type = AST_TOKT_FUNC
  /\ heap[m].left # NULL /\ heap[m].right = NULL
  /\ cur[h] \in SeqSet(PostOrder(heap, heap[m].left))

\* C30: each `)` closes the innermost scope still open, openings being
\* closed last-opened first: the node that becomes current held the token
\* of the opening paired with this `)` in the text and has above it every
\* other opening still open; when it is a function node it is not removed
\* and stays, unchanged, a unary node whose left child is the argument
\* subtree.  `sqrt(ln(1))` builds to SQRT(LN(1)), its first `)` closing LN
\* and its second SQRT, and evaluates to 0 as a double.
C30_ClosesInnermost ==
  /\ [](\A h \in H :
          /\ (Ended(h) /\ last.str = Example30) =>
               /\ last.ret = 0
               /\ Tree(h) = Op1(AST_TOK_SQRT,
                                Op1(AST_TOK_LN, NumLeaf(ast[h].dtype, 1)))
          /\ (Evaluated(h) /\ err[h].str = Example30
              /\ ast[h].dtype = AST_DTYPE_DOUBLE) =>
               out[h].v.d = DInt(0))
  /\ [][\A h \in H : (GoesOn(h) /\ ReadStep(h, ")")) =>
          /\ heap[cur'[h]].type = Closes(h)
          /\ Cardinality(ScopesAbove(heap, cur'[h])) = OpenCount(h) - 1
          /\ Closes(h) # AST_TOK_PAREN_LEFT => FunctionKept(h, cur'[h])
          /\ (err[h].str = Example30 /\ src[h] = 10) =>
               heap'[cur'[h]].type = AST_TOK_LN
          /\ (err[h].str = Example30 /\ src[h] = 11) =>
               heap'[cur'[h]].type = AST_TOK_SQRT]_vars

\* the first `)` of `sqrt(ln(1))` has been read: the current node is the
\* LN node, still in the tree below SQRT and above the number
C30_Witness ==
  /\ pc["A"] = "parse" /\ err["A"].str = Example30 /\ src["A"] = 11
  /\ heap[cur["A"]].type = AST_TOK_LN
  /\ heap[cur["A"]].parent = first["A"]
  /\ heap[first["A"]].type = AST_TOK_SQRT
  /\ heap[first["A"]].left = cur["A"]
  /\ heap[heap[cur["A"]].left].type = AST_TOK_NUM
  /\ freed = {}

(***************************************************************************)
(* A right parenthesis after a missing operand.                            *)
(***************************************************************************)
\* C31: a `)` read while the current node still lacks an operand and is
\* not a PAREN_LEFT makes the build fail with TOKEN and the message
\* "missing value"; so do `sqrt()` and `(1+)`.
C31_MissingValue ==
  [][\A h \in H :
       (ReadStep(h, ")") /\ ~Full(h)
        /\ heap[cur[h]].type # AST_TOK_PAREN_LEFT) =>
         FailsWith(h, "missing value")]_vars

(***************************************************************************)
(* Unary operators.                                                        *)
(***************************************************************************)
\* the token the tokenizer gives for the lexeme o read after an operand
\* (full) or where an operand is awaited
TokenFor(o, full) == Tokenize(o, 1, AST_DTYPE_LONG, full).tok

RefVal(def, inr, v) == [def |-> def, inr |-> inr, v |-> v]

\* the quotient of a by b # 0 truncated toward zero: the remainder is
\* smaller than the divisor and has the sign of the dividend
Quotient(a, b) ==
  CHOOSE q \in -Abs(a)..Abs(a) :
    LET r == a - q * b
    IN  Abs(r) < Abs(b) /\ (r = 0 \/ (r < 0) = (a < 0))

RefOp(type, x, y) ==
  CASE type = AST_TOK_NEG -> -x
    [] type = AST_TOK_PLUS -> x + y
    [] type = AST_TOK_MINUS -> x - y
    [] type = AST_TOK_MUL -> x * y
    [] type = AST_TOK_DIV -> Quotient(x, y)

\* the value of the tree below n over the integers, left operand first
RECURSIVE Ref(_, _, _)
Ref(hp, n, var) ==
  IF n = NULL THEN RefVal(FALSE, TRUE, 0)
  ELSE IF hp[n].type = AST_TOK_NUM THEN RefVal(TRUE, TRUE, hp[n].value.l)
  ELSE IF hp[n].type = AST_TOK_VAR
    THEN IF hp[n].value.l + 1 \in DOMAIN var
           THEN RefVal(TRUE, TRUE, var[hp[n].value.l + 1])
           ELSE RefVal(FALSE, TRUE, 0)
  ELSE IF hp[n].type = AST_TOK_NEG
    THEN LET x == Ref(hp, hp[n].left, var)
         IN  IF ~x.def \/ ~x.inr THEN RefVal(x.def, x.inr, 0)
             ELSE RefVal(TRUE, InLong(-x.v), -x.v)
  ELSE IF hp[n].type \in
            {AST_TOK_PLUS, AST_TOK_MINUS, AST_TOK_MUL, AST_TOK_DIV}
    THEN LET x == Ref(hp, hp[n].left, var)
             y == Ref(hp, hp[n].right, var)
         IN  IF ~x.def \/ ~y.def THEN RefVal(FALSE, TRUE, 0)
             ELSE IF ~x.inr \/ ~y.inr THEN RefVal(TRUE, FALSE, 0)
             ELSE IF hp[n].type = AST_TOK_DIV /\ y.v = 0
               THEN RefVal(FALSE, TRUE, 0)
             ELSE RefVal(TRUE, InLong(RefOp(hp[n].type, x.v, y.v)),
                         RefOp(hp[n].type, x.v, y.v))
  ELSE RefVal(FALSE, TRUE, 0)

\* the last call was an evaluation of the LONG tree of handle h that
\* passed the argument checks
LongEval(h) ==
  /\ last.op = "eval" /\ last.h = h
  /\ err[h].errno = 0 /\ ast[h].ast # NULL
  /\ ast[h].dtype = AST_DTYPE_LONG

\* the evaluation returned 0 and stored the number k
Stored(h, k) ==
  /\ ~crashed /\ last.done /\ last.ret = 0
  /\ out[h].written /\ ~out[h].ub /\ out[h].v.l = k

(* C33 as stated: in LONG mode, for every finished tree of numbers,        *)
(* variables, NEG, PLUS, MINUS, MUL and DIV with non-zero divisors and     *)
(* every variable array, eval stores the value of the tree over the        *)
(* integers.                                                               *)
C33_Original ==
  \A h \in H :
    (LongEval(h) /\ Ref(heap, ast[h].ast, last.var.arr).def) =>
      Stored(h, Ref(heap, ast[h].ast, last.var.arr).v)

(* C33 as amended: the same, provided that no value met on the way leaves  *)
(* the range of long.                                                      *)
C33_LongSemantics ==
  \A h \in H :
    (LongEval(h) /\ Ref(heap, ast[h].ast, last.var.arr).def
     /\ Ref(heap, ast[h].ast, last.var.arr).inr) =>
      Stored(h, Ref(heap, ast[h].ast, last.var.arr).v)

\* `-7/2` has been evaluated to -3
C33_Witness ==
  /\ LongEval("A") /\ err["A"].str = <<"-", "7", "/", "2">>
  /\ heap[ast["A"].ast].type = AST_TOK_DIV
  /\ Stored("A", -3)

(***************************************************************************)
(* The storage of the index set.                                           *)
(***************************************************************************)
\* C34: the storage of the index set is never overrun: the capacity starts
\* at 0, becomes 1 at the insertion into the empty set and 2*nvar at an
\* insertion when nvar is a power of two, and at every insertion it is at
\* least nvar + 1, so that the new element and the shifted ones lie below
\* the capacity.
C34_NoOverrun ==
  /\ [](/\ ast["A"].cap >= ast["A"].nvar
        /\ Len(ast["A"].vidx) = ast["A"].nvar)
  /\ [][ast'["A"].vidx # ast["A"].vidx =>
          /\ ast'["A"].nvar = ast["A"].nvar + 1
          /\ ast'["A"].cap >= ast["A"].nvar + 1
          /\ ast'["A"].cap =
               IF ast["A"].nvar = 0 THEN 1
               ELSE IF IsPow2(ast["A"].nvar) THEN 2 * ast["A"].nvar
               ELSE ast["A"].cap]_vars

\* five indices are held, sorted, in an array of eight
C34_Witness ==
  /\ ast["A"].nvar = 5 /\ ast["A"].cap = 8
  /\ ast["A"].vidx = <<0, 1, 3, 4, 6>>
  /\ err["A"].errno = 0

(***************************************************************************)
(* The index of `${N}`.                                                    *)
(***************************************************************************)
\* digits of the written indices, and the longest written index
DigitsN == {"0", "1", "2", "7", "8", "9"}
MaxDigits == 4

\* index runs: one reference `${N}` is built, N every string of at most
\* MaxDigits of the digits above
InitN == InitWith({VarN(ds) : ds \in SeqsUpTo(DigitsN, MaxDigits)}, {"A"})

SpecN == InitN /\ [][NextB]_vars

\* the number that the digit string ds writes
RECURSIVE NumberOf(_)
NumberOf(ds) ==
  IF ds = <<>> THEN 0
  ELSE 10 * NumberOf(SubSeq(ds, 1, Len(ds) - 1)) + DigitVal(ds[Len(ds)])

\* the digit string between `${` and `}` of the reference s
IndexOf(s) == SubSeq(s, 3, Len(s) - 1)

\* the accumulator of the loop over the digits of the reference s never
\* decreases, so its last value is its largest
Accumulated(s) == VarIdxLoop(s, 3, 0).idx

\* the build of the reference `${N}` has ended
IndexRead == Ended("A") /\ last.str = input

TooLarge ==
  /\ last.ret = AST_ERR_TOKEN
  /\ err["A"].errno = AST_ERR_TOKEN
  /\ err["A"].msg = "the variable index is too large"
  /\ ast["A"].nvar = 0

(* C35 as stated: every digit string whose value is at most LONG_MAX is    *)
(* accepted with exactly that value, every digit string whose value is     *)
(* larger fails with TOKEN and "the variable index is too large", and the  *)
(* accumulator never holds a value above LONG_MAX.                         *)
C35_Original ==
  IndexRead =>
    LET n == NumberOf(IndexOf(last.str))
    IN  /\ (IndexOf(last.str) # <<>> /\ n <= LONG_MAX) => BuildsVar(n - 1)
        /\ n > LONG_MAX => TooLarge
        /\ Accumulated(last.str) <= LONG_MAX

(* C35 as amended: as C35, for the digit strings whose value is from 1 to  *)
(* LONG_MAX; a digit string whose value is 0 fails with TOKEN.             *)
C35_IndexRange ==
  IndexRead =>
    LET n == NumberOf(IndexOf(last.str))
    IN  /\ (1 <= n /\ n <= LONG_MAX) => BuildsVar(n - 1)
        /\ n > LONG_MAX => TooLarge
        /\ n = 0 => last.ret = AST_ERR_TOKEN /\ ~TooLarge
        /\ Accumulated(last.str) <= LONG_MAX

\* `${128}` is refused at the addition of its last digit
C35_Witness ==
  /\ IndexRead /\ last.str = VarN(Digits(LONG_MAX + 1))
  /\ TooLarge
  /\ Accumulated(last.str) = 10 * ((LONG_MAX + 1) \div 10)

(***************************************************************************)
(* The cursor of the tokenizer.                                            *)
(***************************************************************************)
\* lexemes of the cursor runs: every token that is longer than one
\* character, whitespace, and the beginnings `&` and `=` of no token
PiecesK ==
  {<<"1">>, <<" ">>, <<"+">>, <<"!">>, <<"(">>, <<")">>,
   <<"&", "&">>, <<"|", "|">>, <<"!", "=">>, <<">", "=">>, <<"<", "=">>,
   <<"=", "=">>, <<"&">>, VarD(2), VarN(<<"1", "2">>),
   <<"l", "n", "(">>, <<"l", "o", "g", "(">>, <<"s", "q", "r", "t", "(">>}
MaxToksK == 3

InitK == InitWith(Exprs(PiecesK, MaxToksK), {"A"})

SpecK == InitK /\ [][NextB]_vars

\* the first position from p on where s has the character ch
RECURSIVE Find(_, _, _)
Find(s, p, ch) ==
  IF p > Len(s) \/ s[p] = ch THEN p ELSE Find(s, p + 1, ch)

\* the length of the token tok written at position c of s
LexLen(s, c, tok) ==
  CASE tok \in {AST_TOK_AND, AST_TOK_OR, AST_TOK_NEQ, AST_TOK_GE, AST_TOK_LE}
         -> 2
    [] tok = AST_TOK_VAR ->
         IF CharAt(s, c + 1) = AST_VAR_START
           THEN Find(s, c, AST_VAR_END) - c + 1 ELSE 2
    [] tok = AST_TOK_LN -> 3
    [] tok = AST_TOK_LOG -> 4
    [] tok = AST_TOK_SQRT -> 5
    [] tok = AST_TOK_NUM -> DigitsEnd(s, c) - c
    [] OTHER -> 1

\* the cursor of handle h after a step that goes on to the next token
Advances(h) ==
  GoesOn(h) =>
    LET s == err[h].str
        c == ast_skip_space(s, src[h])
    IN  /\ src'[h] = c + LexLen(s, c, TokenRead(h))
        /\ src'[h] > src[h]
        /\ src'[h] <= Len(s) + 1

\* a level of ast_parse_token that is to run can run, and its cursor is in
\* the string or at its end
Running(h) ==
  pc[h] = "parse" =>
    /\ hst[h] = "live" /\ ~crashed /\ ~last.done
    /\ 1 <= src[h] /\ src[h] <= Len(err[h].str) + 1

\* a level that does not go on to the next token returns, and ast_build
\* with it
LevelReturns(h) ==
  (pc[h] = "parse" /\ ~GoesOn(h) /\ pc'[h] # pc[h]) =>
    /\ pc'[h] = "idle" /\ last'.done
    /\ last'.ret = err'[h].errno

(* C36: every step of the tokenizer that neither fails nor reaches the end *)
(* of the string moves the cursor forward by exactly the length of the     *)
(* token it recognised, at least one character and never past the end of   *)
(* the string, and every other step ends the call with success or with its *)
(* first error: the distance of the cursor from the end of the string      *)
(* bounds the number of steps that remain.                                 *)
C36_Terminates ==
  /\ [](\A h \in H : Running(h))
  /\ [][\A h \in H : /\ Advances(h)
                      /\ (pc[h] = "parse" /\ pc'[h] = "parse") => GoesOn(h)
                      /\ LevelReturns(h)]_vars

\* `sqrt(${12}` is read to its end in two steps, the cursor behind the
\* closing brace
C36_Witness ==
  /\ pc["A"] = "parse"
  /\ err["A"].str = <<"s", "q", "r", "t", "(">> \o VarN(<<"1", "2">>)
  /\ src["A"] = 11 /\ heap[cur["A"]].type = AST_TOK_VAR
  /\ ast["A"].vidx = <<11>>

(***************************************************************************)
(* The position of a token error.                                          *)
(***************************************************************************)
\* the messages of the errors that a token raises
TokenMessages ==
  {"unrecognised token", "missing operator", "missing value",
   "unbalanced parenthesis", "empty parenthesis"}

\* in this step a token of handle h is refused with one of the messages
TokenRefused(h) ==
  /\ TokenStep(h)
  /\ err'[h].errno = AST_ERR_TOKEN /\ err'[h].msg \in TokenMessages

\* C37: when a build fails with a TOKEN error that a token raised, the
\* recorded position lies inside the expression string and is the position
\* of the first character of that token, which is no whitespace, also when
\* whitespace precedes the token.
C37_ErrorPosition ==
  [][\A h \in H : TokenRefused(h) =>
       /\ err'[h].eptr \in 1..Len(err[h].str)
       /\ err'[h].eptr = ast_skip_space(err[h].str, src[h])
       /\ ~isspace(err[h].str[err'[h].eptr])]_vars

====
